---------------------------- MODULE Spec2Model ----------------------------
(***************************************************************************)
(* A model of rustlox, a tree-walking interpreter for Lox written in Rust. *)
(*                                                                         *)
(* Environment (src/src/environment.rs) is modelled as a heap of scope     *)
(* nodes; an Rc<Environment> is the index of a node in that heap.  The     *)
(* interpreter (src/src/interpreter.rs) and Callable (src/src/token.rs)    *)
(* are modelled as recursive operators over an interpreter state record,   *)
(* one operator per visitor method.                                        *)
(*                                                                         *)
(* The scanner (src/src/token.rs) and the parser (src/src/parser.rs) are   *)
(* recursive operators over a scanner and a parser record, and main.rs is  *)
(* their composition.                                                      *)
(*                                                                         *)
(* Six specifications:                                                     *)
(*   SpecEnv    drives define / assign / get on arbitrary scope chains;    *)
(*   Spec       runs Interpreter::interpret on bounded programs;           *)
(*   SpecEval   evaluates single expressions and calls;                    *)
(*   SpecScan   runs Scanner::scan_tokens on bounded source texts;         *)
(*   SpecParse  runs Parser::parse on bounded token vectors;               *)
(*   SpecRun    runs main: a script file, or the lines of the prompt.      *)
(***************************************************************************)
EXTENDS Integers, Sequences, FiniteSets, TLC

VARIABLES heap, last, nops, program, pc, status, environment, output, log,
          parser, had_error,
          scanner

vars == <<heap, last, nops, program, pc, status, environment, output, log,
          parser, had_error, scanner>>

envVars == <<heap, last, nops>>
runVars == <<program, pc, status, environment, output, log>>
scanVars == <<scanner>>
parseVars == <<parser, had_error>>

-----------------------------------------------------------------------------
(* Bounds of the model *)

\* number of Environment nodes the scope-chain specification allocates
MaxEnvs == 3
\* number of Environment operations in one behaviour of SpecEnv
MaxOps == 5

-----------------------------------------------------------------------------
(* Values and results: src/src/token.rs Value, src/src/interpreter.rs
   InterpreterError / ExpressionResult *)

\* Option::None for `enclosing`
None == 0

Nil == [t |-> "Nil", value |-> 0]
Double(n) == [t |-> "Double", value |-> n]
Boolean(b) == [t |-> "Boolean", value |-> b]
String(s) == [t |-> "String", value |-> s]

\* Ok(value)
Ok(v) == [kind |-> "Ok", operator |-> "", error |-> "", value |-> v]

\* Err(InterpreterError::RuntimeError { operator, error })
RuntimeError(operator, error) ==
    [kind |-> "RuntimeError", operator |-> operator, error |-> error, value |-> Nil]

\* Err(InterpreterError::Return { value })
Return(v) == [kind |-> "Return", operator |-> "", error |-> "", value |-> v]

\* a panic!() / unwrap() on Err: the process aborts
Panic(msg) == [kind |-> "Panic", operator |-> "", error |-> msg, value |-> Nil]

-----------------------------------------------------------------------------
(* Environment: src/src/environment.rs *)

EmptyValues == [k \in {} |-> Nil]

\* Environment::new(enclosing): the heap with one more node
EnvironmentNew(h, enclosing) ==
    Append(h, [values |-> EmptyValues, enclosing |-> enclosing])

\* a get that never delegates to the enclosing scope
EnvGetLocalOnly(h, e, name) ==
    IF name \in DOMAIN h[e].values
    THEN Ok(h[e].values[name])
    ELSE RuntimeError("IDENTIFIER", "Undefined variable '" \o name \o "'")

\* Environment::get
RECURSIVE EnvGet(_, _, _)
EnvGet(h, e, name) ==
    IF name \in DOMAIN h[e].values
    THEN Ok(h[e].values[name])
    ELSE IF h[e].enclosing # None
         THEN EnvGet(h, h[e].enclosing, name)
         ELSE RuntimeError("IDENTIFIER", "Undefined variable '" \o name \o "'")

\* an assign that, on a miss at the root, creates the binding there
RECURSIVE EnvAssignOrCreate(_, _, _, _)
EnvAssignOrCreate(h, e, name, value) ==
    IF name \in DOMAIN h[e].values \/ h[e].enclosing = None
    THEN [heap |-> [h EXCEPT ![e].values = (name :> value) @@ h[e].values],
          res |-> Ok(value)]
    ELSE EnvAssignOrCreate(h, h[e].enclosing, name, value)

\* an assign that writes the receiver scope whenever the name is visible
EnvAssignShadow(h, e, name, value) ==
    IF EnvGet(h, e, name).kind = "Ok"
    THEN [heap |-> [h EXCEPT ![e].values = (name :> value) @@ h[e].values],
          res |-> Ok(value)]
    ELSE [heap |-> h,
          res |-> RuntimeError("IDENTIFIER",
                               "Undefined variable '" \o name \o "'")]

\* Environment::assign: heap after the call and the ExpressionResult
RECURSIVE EnvAssign(_, _, _, _)
EnvAssign(h, e, name, value) ==
    IF name \in DOMAIN h[e].values
    THEN [heap |-> [h EXCEPT ![e].values = (name :> value) @@ h[e].values],
          res |-> Ok(value)]
    ELSE IF h[e].enclosing # None
         THEN EnvAssign(h, h[e].enclosing, name, value)
         ELSE [heap |-> h,
               res |-> RuntimeError("IDENTIFIER",
                                    "Undefined variable '" \o name \o "'")]

\* a define that writes through to the scope that already binds the name
EnvDefineThrough(h, e, name, value) ==
    IF EnvAssign(h, e, name, value).res.kind = "Ok"
    THEN EnvAssign(h, e, name, value).heap
    ELSE [h EXCEPT ![e].values = (name :> value) @@ h[e].values]

\* Environment::define: insert into the receiver's map only
EnvDefine(h, e, name, value) ==
    [h EXCEPT ![e].values = (name :> value) @@ h[e].values]

-----------------------------------------------------------------------------
(* SpecEnv: the Environment API driven directly, as the unit tests of
   environment.rs do *)

EnvNames == {"a", "b"}
EnvValues == {Double(1), Double(2)}

\* no Scanner has been constructed
NoScanner == [state |-> "none"]

\* no Parser has been constructed
NoParser == [state |-> "none"]

NoOp == [op |-> "none", env |-> None, name |-> "", value |-> Nil,
         result |-> Ok(Nil), before |-> <<>>]

InitEnv ==
    /\ heap = EnvironmentNew(<<>>, None)
    /\ last = NoOp
    /\ nops = 0
    /\ program = <<>>
    /\ pc = 1
    /\ status = "idle"
    /\ environment = None
    /\ output = <<>>
    /\ log = <<>>
    /\ scanner = NoScanner
    /\ parser = NoParser
    /\ had_error = FALSE

\* Environment::new(None) or Environment::new(Some(parent))
NewEnv(parent) ==
    /\ nops < MaxOps
    /\ Len(heap) < MaxEnvs
    /\ heap' = EnvironmentNew(heap, parent)
    /\ last' = [NoOp EXCEPT !.op = "new", !.env = Len(heap) + 1, !.before = heap]
    /\ nops' = nops + 1
    /\ UNCHANGED <<runVars, scanVars, parseVars>>

Define(e, name, value) ==
    /\ nops < MaxOps
    /\ heap' = EnvDefine(heap, e, name, value)
    /\ last' = [op |-> "define", env |-> e, name |-> name, value |-> value,
                result |-> Ok(Nil), before |-> heap]
    /\ nops' = nops + 1
    /\ UNCHANGED <<runVars, scanVars, parseVars>>

Assign(e, name, value) ==
    /\ nops < MaxOps
    /\ LET r == EnvAssign(heap, e, name, value)
       IN /\ heap' = r.heap
          /\ last' = [op |-> "assign", env |-> e, name |-> name, value |-> value,
                      result |-> r.res, before |-> heap]
    /\ nops' = nops + 1
    /\ UNCHANGED <<runVars, scanVars, parseVars>>

Get(e, name) ==
    /\ nops < MaxOps
    /\ heap' = heap
    /\ last' = [op |-> "get", env |-> e, name |-> name, value |-> Nil,
                result |-> EnvGet(heap, e, name), before |-> heap]
    /\ nops' = nops + 1
    /\ UNCHANGED <<runVars, scanVars, parseVars>>

NextEnv ==
    \/ \E parent \in {None} \cup (1..Len(heap)) : NewEnv(parent)
    \/ \E e \in 1..Len(heap), name \in EnvNames, value \in EnvValues :
          Define(e, name, value)
    \/ \E e \in 1..Len(heap), name \in EnvNames, value \in EnvValues :
          Assign(e, name, value)
    \/ \E e \in 1..Len(heap), name \in EnvNames : Get(e, name)

SpecEnv == InitEnv /\ [][NextEnv]_vars

-----------------------------------------------------------------------------
(* The syntax tree: src/src/expression.rs Expr and Stmt.  A Token is
   represented by its lexeme (names) or its TokenType (operators). *)

\* Option::None for an absent initializer / else branch
NoExpr == [e |-> "None"]
NoStmt == [s |-> "None"]

Literal(value) == [e |-> "Literal", value |-> value]
Variable(name) == [e |-> "Variable", name |-> name]
AssignExpr(name, value) == [e |-> "Assign", name |-> name, value |-> value]
Binary(left, operator, right) ==
    [e |-> "Binary", left |-> left, operator |-> operator, right |-> right]
Logical(left, operator, right) ==
    [e |-> "Logical", left |-> left, operator |-> operator, right |-> right]
Unary(operator, right) == [e |-> "Unary", operator |-> operator, right |-> right]
Grouping(expression) == [e |-> "Grouping", expression |-> expression]
Call(callee, arguments) ==
    [e |-> "Call", callee |-> callee, paren |-> "RIGHT_PAREN",
     arguments |-> arguments]

ExpressionStmt(expr) == [s |-> "Expression", expr |-> expr]
PrintStmt(expr) == [s |-> "Print", expr |-> expr]
VarStmt(name, initializer) == [s |-> "Var", name |-> name, initializer |-> initializer]
BlockStmt(statements) == [s |-> "Block", statements |-> statements]
IfStmt(condition, then_branch, else_branch) ==
    [s |-> "If", condition |-> condition, then_branch |-> then_branch,
     else_branch |-> else_branch]
WhileStmt(condition, body) == [s |-> "While", condition |-> condition, body |-> body]
FunctionStmt(name, params, body) ==
    [s |-> "Function", name |-> name, params |-> params, body |-> body]
ReturnStmt(value) == [s |-> "Return", value |-> value]

\* Value::Callable { callable: Callable::Function { declaration, closure } }
FunctionValue(declaration, closure) ==
    [t |-> "Callable",
     value |-> [kind |-> "Function", declaration |-> declaration,
                closure |-> closure]]

\* Value::Callable { callable: Callable::NativeFunction { arity, call, value } }
NativeFunctionValue(arity, call, value) ==
    [t |-> "Callable",
     value |-> [kind |-> "NativeFunction", arity |-> arity, call |-> call,
                value |-> value]]

-----------------------------------------------------------------------------
(* Interpreter: src/src/interpreter.rs, and Callable: src/src/token.rs.

   Every visitor method is an operator from the syntax node and the
   interpreter state to [st, res]: the state after the method and its
   result.  The state st has the fields
     heap         the Environment nodes allocated so far
     environment  Interpreter::environment, the current-environment cursor
     output       the lines written by println!
     now          the value SystemTime::now() yields during this statement
   and the history fields log, calls, nblocks, nsites, which record what
   happened and influence nothing.
   A result of kind "Panic" stands for panic!() / unwrap() on Err: nothing
   runs after it.  "Diverge" stands for an evaluation cut off by the bounds
   below. *)

\* bound on the iterations of one while loop
MaxIter == 3
\* bound on the depth of nested calls
MaxCallDepth == 3

Emit(st, event) == [st EXCEPT !.log = Append(@, event)]

Stops(r) == r.res.kind \in {"Panic", "Diverge"}

\* Interpreter::is_truthy
is_truthy(val) ==
    CASE val.t = "Boolean" -> val.value
      [] val.t = "Double" -> TRUE
      [] val.t = "String" -> TRUE
      [] val.t = "Nil" -> FALSE
      [] val.t = "Callable" -> TRUE

\* Interpreter::values_are_equal: the derived PartialEq of Value
values_are_equal(left, right) == left.t = right.t /\ left.value = right.value

\* Interpreter::is_equal / is_not_equal
is_equal(left, right) == Boolean(values_are_equal(left, right))
is_not_equal(left, right) == Boolean(~values_are_equal(left, right))

\* Callable::value
callable_value(callable) ==
    IF callable.kind = "NativeFunction" THEN callable.value
    ELSE "IDENTIFIER " \o callable.declaration.name \o " 1"

\* impl fmt::Display for Value; a Double is an integer of the model
to_string(val) ==
    CASE val.t = "Boolean" -> IF val.value THEN "true" ELSE "false"
      [] val.t = "Double" -> ToString(val.value)
      [] val.t = "String" -> val.value
      [] val.t = "Nil" -> "Nil"
      [] val.t = "Callable" -> callable_value(val.value)

\* f64 division restricted to the integers of the model: exact quotients,
\* and x / 0 is an infinity that equals no finite value
Infinity == 1000000
DoubleDiv(l, r) ==
    IF r = 0 THEN (IF l < 0 THEN -Infinity ELSE Infinity) ELSE l \div r

\* the operator dispatch of visit_binary_expr on two evaluated operands
binary_op(operator, left_val, right_val) ==
    IF operator = "EQUAL_EQUAL" THEN Ok(is_equal(left_val, right_val))
    ELSE IF operator = "BANG_EQUAL" THEN Ok(is_not_equal(left_val, right_val))
    ELSE IF left_val.t = "Double" THEN
        CASE right_val.t = "Double" ->
               CASE operator = "MINUS" -> Ok(Double(left_val.value - right_val.value))
                 [] operator = "PLUS" -> Ok(Double(left_val.value + right_val.value))
                 [] operator = "SLASH" ->
                        Ok(Double(DoubleDiv(left_val.value, right_val.value)))
                 [] operator = "STAR" -> Ok(Double(left_val.value * right_val.value))
                 [] operator = "GREATER" -> Ok(Boolean(left_val.value > right_val.value))
                 [] operator = "GREATER_EQUAL" ->
                        Ok(Boolean(left_val.value >= right_val.value))
                 [] operator = "LESS" -> Ok(Boolean(left_val.value < right_val.value))
                 [] operator = "LESS_EQUAL" ->
                        Ok(Boolean(left_val.value <= right_val.value))
                 [] OTHER -> RuntimeError(operator,
                                "Cannot perform this operation on a number")
          [] right_val.t = "Boolean" ->
               RuntimeError(operator, "Cannot perform this with a number and boolean")
          [] right_val.t = "String" ->
               RuntimeError(operator, "Cannot perform this with a number and a string")
          [] right_val.t = "Nil" ->
               RuntimeError(operator, "Cannot perform this with a number and nil")
          [] right_val.t = "Callable" ->
               RuntimeError(operator, "Cannot perform this with a number and Callable")
    ELSE IF left_val.t = "String" THEN
        IF operator = "PLUS"
        THEN Ok(String(left_val.value \o to_string(right_val)))
        ELSE RuntimeError(operator, "Cannot perform this operation on a string")
    ELSE RuntimeError(operator, "Cannot perform this operation on this type")

\* `params.len() as i8`
AsI8(n) == IF n % 256 >= 128 THEN (n % 256) - 256 ELSE n % 256

\* Callable::arity
arity(callable) ==
    IF callable.kind = "NativeFunction" THEN callable.arity
    ELSE AsI8(Len(callable.declaration.params))

\* `func_arguments.len() == callable.arity() as usize`: a negative i8 casts to
\* a usize above every possible Vec length
arity_matches(len, a) == a >= 0 /\ len = a

\* the error visit_call_expr builds on an arity mismatch
arity_error(paren, expected, actual) ==
    RuntimeError(paren, "Expected x arguments, but got y")

\* the loop of Callable::call that defines each parameter: values[i] panics
\* when there are fewer values than parameters
\* (from parameter i on; the defines of the loop taken together: each name
\* gets the value of its last occurrence among the parameters)
define_params(h, env, params, values, i) ==
    LET defined == {j \in i..Len(params) : j <= Len(values)}
        last_of(name) == CHOOSE j \in defined :
                             /\ params[j] = name
                             /\ \A j2 \in defined : params[j2] = name => j2 <= j
        names == {params[j] : j \in defined}
    IN [heap |-> [h EXCEPT ![env].values =
                      [name \in names |-> values[last_of(name)]] @@ h[env].values],
        ok |-> Len(values) >= Len(params)]

\* the enclosing argument of Environment::new in Callable::call
call_enclosing(callable) == None

\* the Value Callable::call returns once the body has been executed
call_result(body_result) == Nil

\* an Err arm that returns without resetting the cursor
keep_environment_on_err(st, prev) == st

\* execute_block, Err arm: `self.environment = prev`
reset_environment_on_err(st, prev) == [st EXCEPT !.environment = prev]

\* execute_block, after the loop: `self.environment = prev`
reset_environment(st, prev) == [st EXCEPT !.environment = prev]

\* history only: the scopes visible from e, innermost first
RECURSIVE Chain(_, _)
Chain(h, e) ==
    IF h[e].enclosing = None THEN <<e>> ELSE <<e>> \o Chain(h, h[e].enclosing)

\* history only: does the part of the chain from the cursor up to the
\* environment of the running call bind the name
RECURSIVE BoundInCall(_, _, _, _)
BoundInCall(h, e, callenv, name) ==
    IF name \in DOMAIN h[e].values THEN TRUE
    ELSE IF e = callenv \/ h[e].enclosing = None THEN FALSE
    ELSE BoundInCall(h, h[e].enclosing, callenv, name)

\* history only: a variable read or assignment, with what the closure of
\* the running function yields for the same name
AccessEvent(st, op, name, res, expected) ==
    [ev |-> "access", op |-> op, name |-> name, res |-> res,
     incall |-> st.calls # <<>>,
     local |-> IF st.calls = <<>> THEN TRUE
               ELSE BoundInCall(st.heap, st.environment,
                                st.calls[Len(st.calls)].env, name),
     expected |-> expected]

RECURSIVE evaluate(_, _), execute(_, _), execute_block(_, _, _),
          execute_statements(_, _, _), evaluate_arguments(_, _, _, _),
          while_loop(_, _, _), call(_, _, _, _)

(* Each visitor below is written as the call of the sub-evaluation followed
   by an operator for the `match` on its result: <name>_on_<what>(..., r)
   is the code that runs once r, the result of that sub-evaluation, is
   known. *)

\* visit_binary_expr, after both operands
binary_on_right(expr, left_val, r) ==
    IF r.res.kind # "Ok" THEN r
    ELSE [st |-> r.st, res |-> binary_op(expr.operator, left_val, r.res.value)]

\* visit_binary_expr, after the left operand
binary_on_left(expr, l) ==
    IF l.res.kind # "Ok" THEN l
    ELSE binary_on_right(expr, l.res.value, evaluate(expr.right, l.st))

\* Interpreter::visit_binary_expr
visit_binary_expr(expr, st) == binary_on_left(expr, evaluate(expr.left, st))

\* Interpreter::visit_grouping_expr
visit_grouping_expr(expr, st) == evaluate(expr.expression, st)

\* Interpreter::visit_literal_expr
visit_literal_expr(expr, st) == [st |-> st, res |-> Ok(expr.value)]

\* visit_unary_expr, after the operand
unary_on_right(expr, r) ==
    IF r.res.kind # "Ok" THEN r
    ELSE IF expr.operator = "MINUS" THEN
         IF r.res.value.t = "Double"
         THEN [st |-> r.st, res |-> Ok(Double(0 - r.res.value.value))]
         ELSE [st |-> r.st, res |-> Panic("Nope!")]
    ELSE IF expr.operator = "BANG"
         THEN [st |-> r.st, res |-> Ok(Boolean(~is_truthy(r.res.value)))]
         ELSE [st |-> r.st, res |-> Panic("Nope!")]

\* Interpreter::visit_unary_expr
visit_unary_expr(expr, st) == unary_on_right(expr, evaluate(expr.right, st))

\* Interpreter::visit_variable_expr
visit_variable_expr(expr, st) ==
    LET res == EnvGet(st.heap, st.environment, expr.name)
        expected == IF st.calls = <<>> THEN res
                    ELSE EnvGet(st.heap, st.calls[Len(st.calls)].closure, expr.name)
    IN [st |-> Emit(st, AccessEvent(st, "get", expr.name, res, expected)),
        res |-> res]

\* visit_assign_expr, after the value expression
assign_on_value(expr, value) ==
    IF value.res.kind # "Ok" THEN value
    ELSE LET a == EnvAssign(value.st.heap, value.st.environment, expr.name,
                            value.res.value)
             expected ==
                 IF value.st.calls = <<>> THEN a.res
                 ELSE EnvAssign(value.st.heap,
                                value.st.calls[Len(value.st.calls)].closure,
                                expr.name, value.res.value).res
         IN [st |-> Emit([value.st EXCEPT !.heap = a.heap],
                         AccessEvent(value.st, "assign", expr.name, a.res, expected)),
             res |-> a.res]

\* Interpreter::visit_assign_expr
visit_assign_expr(expr, st) == assign_on_value(expr, evaluate(expr.value, st))

\* (variant: the right operand is evaluated before the left value is tested)
logical_on_left_eager(expr, left) ==
    IF left.res.kind # "Ok" THEN left
    ELSE IF expr.operator = "OR" /\ is_truthy(left.res.value)
         THEN [st |-> evaluate(expr.right, left.st).st, res |-> left.res]
    ELSE IF expr.operator # "OR" /\ ~is_truthy(left.res.value)
         THEN [st |-> evaluate(expr.right, left.st).st, res |-> left.res]
    ELSE evaluate(expr.right, left.st)

\* visit_logical_expr, after the left operand
logical_on_left(expr, left) ==
    IF left.res.kind # "Ok" THEN left
    ELSE IF expr.operator = "OR" /\ is_truthy(left.res.value) THEN left
    ELSE IF expr.operator # "OR" /\ ~is_truthy(left.res.value) THEN left
    ELSE evaluate(expr.right, left.st)

\* Interpreter::visit_logical_expr
visit_logical_expr(expr, st) == logical_on_left(expr, evaluate(expr.left, st))

\* the argument loop of visit_call_expr, after one argument
arguments_on_arg(arguments, i, func_arguments, arg) ==
    IF arg.res.kind # "Ok"
    THEN [st |-> arg.st, res |-> arg.res, values |-> func_arguments]
    ELSE evaluate_arguments(arguments, i + 1, arg.st,
                            Append(func_arguments, arg.res.value))

\* the argument loop of visit_call_expr: the values pushed so far, and the
\* first failure
evaluate_arguments(arguments, i, st, func_arguments) ==
    IF i > Len(arguments)
    THEN [st |-> st, res |-> Ok(Nil), values |-> func_arguments]
    ELSE arguments_on_arg(arguments, i, func_arguments, evaluate(arguments[i], st))

\* Callable::call, after execute_block
call_on_body(site, body) ==
    IF Stops(body) THEN body
    ELSE [st |-> Emit([body.st EXCEPT !.calls = SubSeq(@, 1, Len(@) - 1)],
                      [ev |-> "callexit", site |-> site, body |-> body.res,
                       res |-> Ok(call_result(body.res))]),
          res |-> Ok(call_result(body.res))]

\* Callable::call, the Function arm once the parameters are defined in env
call_function(callable, values, st, site, env, d) ==
    IF ~d.ok THEN [st |-> st, res |-> Panic("index out of bounds")]
    ELSE IF Len(st.calls) >= MaxCallDepth
         THEN [st |-> st, res |-> [Panic("") EXCEPT !.kind = "Diverge"]]
    ELSE call_on_body(site,
             execute_block(callable.declaration.body, env,
                 Emit([st EXCEPT !.heap = d.heap,
                                 !.calls = Append(@, [env |-> env,
                                                      closure |-> callable.closure])],
                      [ev |-> "call", site |-> site, env |-> env,
                       enclosing |-> d.heap[env].enclosing,
                       closure |-> callable.closure,
                       bound |-> d.heap[env].values,
                       params |-> callable.declaration.params,
                       values |-> values])))

\* Callable::call (src/src/token.rs); site is the number of the call
\* expression that dispatches it
call(callable, values, st, site) ==
    IF callable.kind = "NativeFunction"
    THEN [st |-> st, res |-> Ok(Double(st.now))]
    ELSE call_function(callable, values, st, site, Len(st.heap) + 1,
             define_params(EnvironmentNew(st.heap, call_enclosing(callable)),
                           Len(st.heap) + 1, callable.declaration.params,
                           values, 1))

\* visit_call_expr, the arity check and the dispatch
call_on_callable(expr, callable, args, site) ==
    IF arity_matches(Len(args.values), arity(callable))
    THEN call(callable, args.values,
              Emit([args.st EXCEPT !.nsites = site],
                   [ev |-> "arity", site |-> site, expected |-> arity(callable),
                    actual |-> Len(args.values), res |-> Ok(Nil)]),
              site)
    ELSE [st |-> Emit([args.st EXCEPT !.nsites = site],
                      [ev |-> "arity", site |-> site,
                       expected |-> arity(callable),
                       actual |-> Len(args.values),
                       res |-> arity_error(expr.paren, arity(callable),
                                           Len(args.values))]),
          res |-> arity_error(expr.paren, arity(callable), Len(args.values))]

\* visit_call_expr, after the arguments
call_on_arguments(expr, callee_res, args) ==
    IF args.res.kind # "Ok" THEN [st |-> args.st, res |-> args.res]
    ELSE IF callee_res.res.kind = "Ok" /\ callee_res.res.value.t = "Callable"
         THEN call_on_callable(expr, callee_res.res.value.value, args,
                               args.st.nsites + 1)
         ELSE [st |-> args.st,
               res |-> RuntimeError(expr.paren,
                                    "Can only call functions and classes.")]

\* visit_call_expr, after the callee; a failed callee is looked at only
\* after the arguments
call_on_callee(expr, callee_res) ==
    IF Stops(callee_res) THEN callee_res
    ELSE call_on_arguments(expr, callee_res,
             evaluate_arguments(expr.arguments, 1, callee_res.st, <<>>))

\* Interpreter::visit_call_expr
visit_call_expr(expr, st) == call_on_callee(expr, evaluate(expr.callee, st))

\* Expr::accept and Interpreter::evaluate
evaluate(expr, st) ==
    CASE expr.e = "Assign" -> visit_assign_expr(expr, st)
      [] expr.e = "Binary" -> visit_binary_expr(expr, st)
      [] expr.e = "Grouping" -> visit_grouping_expr(expr, st)
      [] expr.e = "Literal" -> visit_literal_expr(expr, st)
      [] expr.e = "Unary" -> visit_unary_expr(expr, st)
      [] expr.e = "Variable" -> visit_variable_expr(expr, st)
      [] expr.e = "Logical" -> visit_logical_expr(expr, st)
      [] expr.e = "Call" -> visit_call_expr(expr, st)

\* visit_expression_stmt, after the expression
expression_on_value(r) ==
    IF r.res.kind = "Ok" THEN [st |-> r.st, res |-> Ok(Nil)] ELSE r

\* Interpreter::visit_expression_stmt
visit_expression_stmt(stmt, st) == expression_on_value(evaluate(stmt.expr, st))

\* visit_print_stmt, after the expression
print_on_value(r) ==
    IF r.res.kind = "Ok"
    THEN [st |-> [r.st EXCEPT !.output = Append(@, to_string(r.res.value))],
          res |-> Ok(Nil)]
    ELSE r

\* Interpreter::visit_print_stmt
visit_print_stmt(stmt, st) == print_on_value(evaluate(stmt.expr, st))

\* visit_variable_stmt, after the initializer
variable_on_value(stmt, r) ==
    IF r.res.kind = "Ok"
    THEN [st |-> [r.st EXCEPT !.heap = EnvDefine(r.st.heap, r.st.environment,
                                                 stmt.name, r.res.value)],
          res |-> Ok(Nil)]
    ELSE r

\* Interpreter::visit_variable_stmt
visit_variable_stmt(stmt, st) ==
    IF stmt.initializer.e # "None"
    THEN variable_on_value(stmt, evaluate(stmt.initializer, st))
    ELSE [st |-> [st EXCEPT !.heap = EnvDefine(st.heap, st.environment,
                                               stmt.name, Nil)],
          res |-> Ok(Nil)]

\* the statement loop of execute_block, after one statement
statements_on_result(statements, i, r) ==
    IF r.res.kind # "Ok" THEN r
    ELSE execute_statements(statements, i + 1, r.st)

\* the statement loop of execute_block: stops at the first Err
execute_statements(statements, i, st) ==
    IF i > Len(statements) THEN [st |-> st, res |-> Ok(Nil)]
    ELSE statements_on_result(statements, i, execute(statements[i], st))

\* execute_block, leaving: the cursor is reset on both paths
block_exit(id, res, out) ==
    [st |-> Emit(out, [ev |-> "exit", id |-> id, env |-> out.environment,
                       outcome |-> res.kind]),
     res |-> res]

\* execute_block, after the statement loop
block_on_result(prev, id, r) ==
    IF Stops(r) THEN r
    ELSE IF r.res.kind = "Ok"
         THEN block_exit(id, r.res, reset_environment(r.st, prev))
         ELSE block_exit(id, r.res, reset_environment_on_err(r.st, prev))

\* Interpreter::execute_block; env is the node of the Environment passed in
execute_block(statements, env, st) ==
    block_on_result(st.environment, st.nblocks + 1,
        execute_statements(statements, 1,
            Emit([st EXCEPT !.environment = env, !.nblocks = st.nblocks + 1],
                 [ev |-> "enter", id |-> st.nblocks + 1, env |-> st.environment,
                  depth |-> Len(Chain(st.heap, env)), calls |-> Len(st.calls)])))

\* Interpreter::visit_block_stmt
visit_block_stmt(stmt, st) ==
    execute_block(stmt.statements, Len(st.heap) + 1,
                  [st EXCEPT !.heap = EnvironmentNew(st.heap, st.environment)])

\* visit_if_stmt, after the condition; unwrap() panics on a failed condition
if_on_condition(stmt, value) ==
    IF Stops(value) THEN value
    ELSE IF value.res.kind # "Ok"
         THEN [st |-> value.st, res |-> Panic("unwrap on Err")]
    ELSE IF is_truthy(value.res.value) THEN execute(stmt.then_branch, value.st)
    ELSE IF stmt.else_branch.s # "None" THEN execute(stmt.else_branch, value.st)
    ELSE [st |-> value.st, res |-> Ok(Nil)]

\* Interpreter::visit_if_stmt
visit_if_stmt(stmt, st) == if_on_condition(stmt, evaluate(stmt.condition, st))

\* the loop of visit_while_stmt, after the body
while_on_body(stmt, n, exec_result) ==
    IF exec_result.res.kind # "Ok" THEN exec_result
    ELSE while_loop(stmt, exec_result.st, n + 1)

\* the loop of visit_while_stmt, after the condition
while_on_condition(stmt, n, condition_result) ==
    IF condition_result.res.kind # "Ok" THEN condition_result
    ELSE IF ~is_truthy(condition_result.res.value)
         THEN [st |-> condition_result.st, res |-> Ok(Nil)]
    ELSE IF n >= MaxIter
         THEN [st |-> condition_result.st,
               res |-> [Panic("") EXCEPT !.kind = "Diverge"]]
    ELSE while_on_body(stmt, n, execute(stmt.body, condition_result.st))

\* the loop of visit_while_stmt; n counts its iterations
while_loop(stmt, st, n) ==
    while_on_condition(stmt, n, evaluate(stmt.condition, st))

\* Interpreter::visit_while_stmt
visit_while_stmt(stmt, st) == while_loop(stmt, st, 0)

\* Interpreter::visit_function_stmt
visit_function_stmt(stmt, st) ==
    [st |-> [st EXCEPT !.heap = EnvDefine(st.heap, st.environment, stmt.name,
                                          FunctionValue(stmt, st.environment))],
     res |-> Ok(Nil)]

\* visit_return_stmt, after the value expression
return_on_value(value) ==
    IF value.res.kind = "Ok"
    THEN [st |-> value.st, res |-> Return(value.res.value)]
    ELSE value

\* Interpreter::visit_return_stmt
visit_return_stmt(stmt, st) == return_on_value(evaluate(stmt.value, st))

\* Stmt::accept and Interpreter::execute
execute(stmt, st) ==
    CASE stmt.s = "Expression" -> visit_expression_stmt(stmt, st)
      [] stmt.s = "Print" -> visit_print_stmt(stmt, st)
      [] stmt.s = "Var" -> visit_variable_stmt(stmt, st)
      [] stmt.s = "Block" -> visit_block_stmt(stmt, st)
      [] stmt.s = "If" -> visit_if_stmt(stmt, st)
      [] stmt.s = "While" -> visit_while_stmt(stmt, st)
      [] stmt.s = "Function" -> visit_function_stmt(stmt, st)
      [] stmt.s = "Return" -> visit_return_stmt(stmt, st)

-----------------------------------------------------------------------------
(* Spec: Interpreter::new() followed by Interpreter::interpret on a program *)

\* number of top-level statements of a program
MaxProg == 3

\* values SystemTime::now() can yield, in milliseconds
Times == {1000, 2000}

Num(n) == Literal(Double(n))

\* fun f() { print a; }
DeclF == FunctionStmt("f", <<>>, <<PrintStmt(Variable("a"))>>)
\* fun inc() { a = a + 1; }
DeclInc ==
    FunctionStmt("inc", <<>>,
        <<ExpressionStmt(AssignExpr("a", Binary(Variable("a"), "PLUS", Num(1))))>>)
\* fun g(x) { { return x; } print x; }
DeclG ==
    FunctionStmt("g", <<"x">>,
        <<BlockStmt(<<ReturnStmt(Variable("x"))>>), PrintStmt(Variable("x"))>>)
\* fun h() { { print zz; } print 7; }
DeclH ==
    FunctionStmt("h", <<>>,
        <<BlockStmt(<<PrintStmt(Variable("zz"))>>), PrintStmt(Num(7))>>)
\* fun outer() { var x = 1; fun inner() { return x; } x = 2; print inner(); }
DeclOuter ==
    FunctionStmt("outer", <<>>,
        <<VarStmt("x", Num(1)),
          FunctionStmt("inner", <<>>, <<ReturnStmt(Variable("x"))>>),
          ExpressionStmt(AssignExpr("x", Num(2))),
          PrintStmt(Call(Variable("inner"), <<>>))>>)

\* the statements that programs combine in every order
CorePool ==
    << \* var a = 1;
       VarStmt("a", Num(1)),
       \* a = 2;
       ExpressionStmt(AssignExpr("a", Num(2))),
       \* print a;
       PrintStmt(Variable("a")),
       DeclF,
       \* f();
       ExpressionStmt(Call(Variable("f"), <<>>)),
       \* f(1);
       ExpressionStmt(Call(Variable("f"), <<Num(1)>>)),
       DeclG,
       \* print g(3);
       PrintStmt(Call(Variable("g"), <<Num(3)>>)),
       \* print g();
       PrintStmt(Call(Variable("g"), <<>>))
    >>

\* self-contained statements, each the last statement of a program
LastPool ==
    << \* { var a = 2; print a; }
       BlockStmt(<<VarStmt("a", Num(2)), PrintStmt(Variable("a"))>>),
       \* { fun h() { { print zz; } print 7; } print h(); }
       BlockStmt(<<DeclH, PrintStmt(Call(Variable("h"), <<>>))>>),
       \* { { print 8; } { zz; } print 9; }
       BlockStmt(<<BlockStmt(<<PrintStmt(Num(8))>>),
                   BlockStmt(<<ExpressionStmt(Variable("zz"))>>),
                   PrintStmt(Num(9))>>),
       \* { var a = 1; fun f() { print a; } fun inc() { a = a + 1; }
       \*   a = 2; f(); inc(); print a; }
       BlockStmt(<<VarStmt("a", Num(1)), DeclF, DeclInc,
                   ExpressionStmt(AssignExpr("a", Num(2))),
                   ExpressionStmt(Call(Variable("f"), <<>>)),
                   ExpressionStmt(Call(Variable("inc"), <<>>)),
                   PrintStmt(Variable("a"))>>),
       \* { fun outer() { ... } outer(); }
       BlockStmt(<<DeclOuter, ExpressionStmt(Call(Variable("outer"), <<>>))>>),
       \* { var i = 0; while (i < 2) { i = i + 1; } print i; }
       BlockStmt(<<VarStmt("i", Num(0)),
                   WhileStmt(Binary(Variable("i"), "LESS", Num(2)),
                       BlockStmt(<<ExpressionStmt(AssignExpr("i",
                           Binary(Variable("i"), "PLUS", Num(1))))>>)),
                   PrintStmt(Variable("i"))>>),
       \* if (a) print 1; else { print 2; }
       IfStmt(Variable("a"), PrintStmt(Num(1)), BlockStmt(<<PrintStmt(Num(2))>>)),
       \* print clock();
       PrintStmt(Call(Variable("clock"), <<>>)),
       \* { return 1; }
       BlockStmt(<<ReturnStmt(Num(1))>>)
    >>

\* the sequences of n statements of CorePool
RECURSIVE CoreSeqs(_)
CoreSeqs(n) ==
    IF n = 0 THEN {<<>>}
    ELSE {Append(q, CorePool[k]) : q \in CoreSeqs(n - 1), k \in 1..Len(CorePool)}

\* programs of 1..MaxProg statements
Programs ==
    UNION {CoreSeqs(n) : n \in 1..MaxProg}
    \cup {Append(q, LastPool[k]) :
            q \in UNION {CoreSeqs(n) : n \in 0..(MaxProg - 1)},
            k \in 1..Len(LastPool)}

\* Interpreter::global, the first Environment allocated
global == 1

\* Interpreter::new: the global environment with the native clock defined
interpreter_new ==
    EnvDefine(EnvironmentNew(<<>>, None), global, "clock",
              NativeFunctionValue(0, "clock", "<native fn>"))

Count(kind) == Cardinality({i \in 1..Len(log) : log[i].ev = kind})

Init ==
    /\ program \in Programs
    /\ pc = 1
    /\ status = "running"
    /\ heap = interpreter_new
    /\ environment = global
    /\ output = <<>>
    /\ log = <<>>
    /\ last = NoOp
    /\ nops = 0
    /\ scanner = NoScanner
    /\ parser = NoParser
    /\ had_error = FALSE

\* (variant: the loop goes on to the next statement after an Err)
interpret_on_result_continue(r) ==
    /\ heap' = r.st.heap
    /\ environment' = r.st.environment
    /\ log' = r.st.log
    /\ output' = IF r.res.kind \in {"RuntimeError", "Return"}
                 THEN Append(r.st.output,
                             "Runtime Error caught at interpret: " \o r.res.kind)
                 ELSE r.st.output
    /\ pc' = IF r.res.kind \in {"Ok", "RuntimeError", "Return"} THEN pc + 1 ELSE pc
    /\ status' = CASE r.res.kind \in {"Ok", "RuntimeError", "Return"} ->
                         IF pc = Len(program) THEN "done" ELSE "running"
                   [] r.res.kind = "Panic" -> "aborted"
                   [] OTHER -> "diverged"

\* the loop body of Interpreter::interpret, after execute: Ok goes on to
\* the next statement, an Err is printed and breaks the loop
interpret_on_result(r) ==
    /\ heap' = r.st.heap
    /\ environment' = r.st.environment
    /\ log' = r.st.log
    /\ output' = IF r.res.kind \in {"RuntimeError", "Return"}
                 THEN Append(r.st.output,
                             "Runtime Error caught at interpret: " \o r.res.kind)
                 ELSE r.st.output
    /\ pc' = IF r.res.kind = "Ok" THEN pc + 1 ELSE pc
    /\ status' = CASE r.res.kind = "Ok" ->
                         IF pc = Len(program) THEN "done" ELSE "running"
                   [] r.res.kind = "Panic" -> "aborted"
                   [] r.res.kind = "Diverge" -> "diverged"
                   [] OTHER -> "halted"

\* one iteration of the loop of Interpreter::interpret
interpret(now) ==
    /\ status = "running"
    /\ pc <= Len(program)
    /\ interpret_on_result(
           execute(program[pc],
                   [heap |-> heap, environment |-> environment,
                    output |-> output, now |-> now, log |-> log,
                    calls |-> <<>>, nblocks |-> Count("enter"),
                    nsites |-> Count("arity")]))
    /\ UNCHANGED <<program, last, nops, scanner, parseVars>>

Next == \E now \in Times : interpret(now)

Spec == Init /\ [][Next]_vars

-----------------------------------------------------------------------------
(* SpecEval: Interpreter::new(), one declaration executed by interpret, then
   Interpreter::evaluate applied to one expression.  The expressions are
   drawn from the shapes the parser builds: unary, binary and logical
   operators over operands of every Value variant, variable reads and
   assignments in every operand position, and calls of a declared function.
   For a function of many parameters the step taken is the part of
   visit_call_expr that follows the evaluation of the arguments: the arity
   check and the dispatch, on the values of the arguments. *)

\* parameter counts of the declared function: both sides of the i8 range
ParamCounts == {0, 1, 2, 127, 128, 255}

\* n parameter names / k literal arguments and their values
Params(n) == [i \in 1..n |-> "p" \o ToString(i)]
Args(k) == [i \in 1..k |-> Num(1)]
ArgValues(k) == [i \in 1..k |-> Double(1)]

\* fun f(p1, ..., pn) { }
DeclN(n) == FunctionStmt("f", Params(n), <<>>)

\* var a = 1;
DeclA == VarStmt("a", Num(1))

\* one expression for each Value variant (two for Double and Boolean)
OperandExprs ==
    {Num(1), Num(2), Literal(Boolean(TRUE)), Literal(Boolean(FALSE)),
     Literal(String("s")), Literal(Nil), Variable("clock")}

UnaryOperators == {"MINUS", "BANG"}
ArithmeticOperators ==
    {"MINUS", "PLUS", "SLASH", "STAR",
     "GREATER", "GREATER_EQUAL", "LESS", "LESS_EQUAL"}
BinaryOperators == ArithmeticOperators \cup {"EQUAL_EQUAL", "BANG_EQUAL"}
LogicalOperators == {"OR", "AND"}

\* right operands of a logical operator: one that fails, one with a side
\* effect, and plain values
RightExprs ==
    {Variable("zz"), AssignExpr("a", Num(2)), Num(2), Literal(String("s")),
     Literal(Boolean(FALSE)), Literal(Nil)}

\* the undefined name zz read or assigned in each expression position
UndefinedExprs ==
    {Variable("zz"), AssignExpr("zz", Num(1)), AssignExpr("a", Variable("zz")),
     Grouping(Variable("zz")),
     Unary("BANG", Variable("zz")), Unary("MINUS", Variable("zz")),
     Binary(Variable("zz"), "PLUS", Num(1)), Binary(Num(1), "PLUS", Variable("zz")),
     Binary(Variable("zz"), "EQUAL_EQUAL", Num(1)),
     Logical(Variable("zz"), "OR", Num(1)), Logical(Literal(Nil), "OR", Variable("zz")),
     Call(Variable("clock"), <<Variable("zz")>>),
     Call(Variable("zz"), <<>>), Call(Variable("zz"), <<Num(1)>>)}

EvalExprs ==
    {Unary(op, e) : op \in UnaryOperators, e \in OperandExprs}
    \cup {Binary(l, op, r) : l \in OperandExprs, op \in BinaryOperators,
                             r \in OperandExprs}
    \cup {Logical(l, op, r) : l \in OperandExprs, op \in LogicalOperators,
                              r \in RightExprs}
    \cup UndefinedExprs

\* argument counts tried on a function of n parameters
ArgCounts(n) == {n - 1, n, n + 1} \cap 0..255

\* var a = 1; <expr>;    and    fun f(p1, ..., pn) { }  f(1, ..., 1);
EvalPrograms ==
    {<<DeclA, ExpressionStmt(e)>> : e \in EvalExprs}
    \cup UNION {{<<DeclN(n), ExpressionStmt(Call(Variable("f"), Args(k)))>> :
                    k \in ArgCounts(n)} : n \in ParamCounts}

\* calls whose arguments are evaluated one by one by the step Evaluate
MaxEvaluatedArgs == 3

NoEval == [op |-> "none", expr |-> NoExpr, result |-> Ok(Nil),
           before |-> [heap |-> <<>>, output |-> <<>>, log |-> <<>>]]

InitEval ==
    /\ program \in EvalPrograms
    /\ pc = 1
    /\ status = "running"
    /\ heap = interpreter_new
    /\ environment = global
    /\ output = <<>>
    /\ log = <<>>
    /\ last = NoEval
    /\ nops = 0
    /\ scanner = NoScanner
    /\ parser = NoParser
    /\ had_error = FALSE

\* the caller of evaluate, once it has the result
evaluate_on_result(expr, r) ==
    /\ heap' = r.st.heap
    /\ environment' = r.st.environment
    /\ log' = r.st.log
    /\ output' = r.st.output
    /\ last' = [op |-> "evaluate", expr |-> expr, result |-> r.res,
                before |-> [heap |-> heap, output |-> output, log |-> log]]
    /\ pc' = pc + 1
    /\ status' = IF r.res.kind = "Panic" THEN "aborted" ELSE "done"

\* Interpreter::evaluate on the expression of the statement at pc
Evaluate(now) ==
    /\ status = "running"
    /\ pc <= Len(program)
    /\ program[pc].s = "Expression"
    /\ program[pc].expr.e = "Call" => Len(program[pc].expr.arguments) <= MaxEvaluatedArgs
    /\ evaluate_on_result(program[pc].expr,
           evaluate(program[pc].expr,
                    [heap |-> heap, environment |-> environment,
                     output |-> output, now |-> now, log |-> log,
                     calls |-> <<>>, nblocks |-> Count("enter"),
                     nsites |-> Count("arity")]))
    /\ UNCHANGED <<program, nops, scanner, parseVars>>

\* visit_call_expr from its arity check on, for the call f(1, ..., 1) at pc:
\* the callee has evaluated to the declared function and the arguments to
\* their values
CheckArity(now) ==
    /\ status = "running"
    /\ pc <= Len(program)
    /\ program[pc].s = "Expression"
    /\ program[pc].expr.e = "Call"
    /\ Len(program[pc].expr.arguments) > MaxEvaluatedArgs
    /\ evaluate_on_result(program[pc].expr,
           call_on_callable(program[pc].expr,
               EnvGet(heap, environment, "f").value.value,
               [st |-> [heap |-> heap, environment |-> environment,
                        output |-> output, now |-> now, log |-> log,
                        calls |-> <<>>, nblocks |-> Count("enter"),
                        nsites |-> Count("arity")],
                res |-> Ok(Nil),
                values |-> ArgValues(Len(program[pc].expr.arguments))],
               Count("arity") + 1))
    /\ UNCHANGED <<program, nops, scanner, parseVars>>

\* the declaration that precedes the expression, executed by interpret
Declare(now) ==
    /\ pc <= Len(program)
    /\ program[pc].s # "Expression"
    /\ interpret(now)

NextEval ==
    \/ \E now \in Times : Declare(now)
    \/ \E now \in Times : Evaluate(now)
    \/ \E now \in Times : CheckArity(now)

SpecEval == InitEval /\ [][NextEval]_vars

-----------------------------------------------------------------------------
(* Scanner: src/src/token.rs.

   A source text is a sequence of characters, each a one-character string;
   NonAscii stands for a character outside ASCII, which UTF-8 encodes in two
   bytes.  The Scanner indexes the text in two ways: `source.len()` and the
   slice of current_string count bytes, `chars().nth(n)` counts characters.
   A scanner is the record of the fields of the struct and of `state`:
   "scanning" inside scan_tokens, "returned" after it, "panicked" when an
   unwrap() or a slice has panicked. *)

\* bound on the length of a source text, in characters
MaxSource == 4

\* bound on the length of a token vector, before its EOF
MaxTokens == 4

\* bound on the number of binary operators of an expression
MaxOperators == 3

\* bound on the number of lines read by prompt()
MaxLines == 2

NonAscii == "U+00E9"
\* '\0', and the None of chars().nth()
Nul == "NUL"
NoChar == "None"

\* the characters of the source texts scanned
Alphabet == {"1", ".", "\"", "\n", "/", "a", "@", NonAscii}

\* char::len_utf8
len_utf8(c) == IF c = NonAscii THEN 2 ELSE 1

\* the byte offset of the character of index n (from 0)
ByteOffset(source, n) ==
    n + Cardinality({i \in 1..n : len_utf8(source[i]) = 2})

\* str::len: the length in bytes
source_len(source) == ByteOffset(source, Len(source))

\* source.chars().nth(n)
chars_nth(source, n) == IF n < Len(source) THEN source[n + 1] ELSE NoChar

\* Option<Value>::None
NoLiteral == [t |-> "None", value |-> ""]

\* Scanner::new
ScannerNew(source) ==
    [state |-> "scanning", source |-> source, start |-> 0, current |-> 0,
     line |-> 1, tokens |-> <<>>]

scanner_panic(sc) == [sc EXCEPT !.state = "panicked"]

\* Scanner::is_at_end
is_at_end(sc) == sc.current >= source_len(sc.source)

\* Scanner::current_char: NoChar where unwrap() panics
current_char(sc) == chars_nth(sc.source, sc.current)

\* Scanner::peek
peek(sc) == IF is_at_end(sc) THEN Nul ELSE current_char(sc)

\* Scanner::peek_next
peek_next(sc) ==
    IF sc.current + 1 > source_len(sc.source) THEN Nul
    ELSE chars_nth(sc.source, sc.current + 1)

\* Scanner::is_digit / is_alpha / is_alpha_numeric
is_digit(c) == c \in {"0", "1", "2", "3", "4", "5", "6", "7", "8", "9"}
is_alpha(c) ==
    c \in {"a", "b", "c", "d", "e", "f", "g", "h", "i", "j", "k", "l", "m",
           "n", "o", "p", "q", "r", "s", "t", "u", "v", "w", "x", "y", "z",
           "A", "B", "C", "D", "E", "F", "G", "H", "I", "J", "K", "L", "M",
           "N", "O", "P", "Q", "R", "S", "T", "U", "V", "W", "X", "Y", "Z",
           "_"}
is_alpha_numeric(c) == is_digit(c) \/ is_alpha(c)

\* the characters of a text, joined
RECURSIVE Concat(_)
Concat(cs) == IF cs = <<>> THEN "" ELSE Head(cs) \o Concat(Tail(cs))

\* Scanner::current_string: the slice source[start..current] in bytes; it
\* panics unless both ends fall on character boundaries
current_string(sc) ==
    LET boundaries == {ByteOffset(sc.source, n) : n \in 0..Len(sc.source)}
        inside == {i \in 1..Len(sc.source) :
                      /\ ByteOffset(sc.source, i - 1) >= sc.start
                      /\ ByteOffset(sc.source, i) <= sc.current}
    IN IF sc.start \in boundaries /\ sc.current \in boundaries
       THEN [ok |-> TRUE,
             chars |-> [k \in 1..Cardinality(inside) |->
                          sc.source[k + Cardinality({i \in 1..Len(sc.source) :
                                        ByteOffset(sc.source, i - 1) < sc.start})]]]
       ELSE [ok |-> FALSE, chars |-> <<>>]

\* Scanner::add_token
add_token(sc, ttype, literal) ==
    IF ~current_string(sc).ok THEN scanner_panic(sc)
    ELSE [sc EXCEPT !.tokens =
              Append(@, [ttype |-> ttype, literal |-> literal,
                         lexeme |-> Concat(current_string(sc).chars),
                         line |-> sc.line])]

\* Scanner::add_token_no_literal
add_token_no_literal(sc, ttype) == add_token(sc, ttype, NoLiteral)

\* Scanner::is_match as used by scan_token: the token added when the next
\* character is `expected`, and when it is not
add_token_if_match(sc, expected, matched, unmatched) ==
    IF is_at_end(sc) THEN add_token_no_literal(sc, unmatched)
    ELSE IF current_char(sc) = NoChar THEN scanner_panic(sc)
    ELSE IF expected # current_char(sc) THEN add_token_no_literal(sc, unmatched)
    ELSE add_token_no_literal([sc EXCEPT !.current = @ + 1], matched)

\* the loop of scan_token that skips a comment up to the end of the line
RECURSIVE skip_comment(_)
skip_comment(sc) ==
    IF peek(sc) = NoChar THEN scanner_panic(sc)
    ELSE IF peek(sc) = "\n" \/ is_at_end(sc) THEN sc
    ELSE skip_comment([sc EXCEPT !.current = @ + 1])

\* (variant: the newlines inside a string literal are not counted)
RECURSIVE string_loop_one_line(_)
string_loop_one_line(sc) ==
    IF peek(sc) = NoChar THEN scanner_panic(sc)
    ELSE IF peek(sc) = "\"" \/ is_at_end(sc) THEN sc
    ELSE string_loop_one_line([sc EXCEPT !.current = @ + 1])

\* the loop of Scanner::string: up to the closing quote or the end
RECURSIVE string_loop(_)
string_loop(sc) ==
    IF peek(sc) = NoChar THEN scanner_panic(sc)
    ELSE IF peek(sc) = "\"" \/ is_at_end(sc) THEN sc
    ELSE string_loop([sc EXCEPT !.current = @ + 1,
                                !.line = IF peek(sc) = "\n" THEN @ + 1 ELSE @])

\* Scanner::string after the closing quote: value[1..value.len() - 1]
string_token(sc) ==
    IF ~current_string(sc).ok THEN scanner_panic(sc)
    ELSE add_token(sc, "STRING",
             String(Concat(SubSeq(current_string(sc).chars, 2,
                                  Len(current_string(sc).chars) - 1))))

\* Scanner::string after its loop: nothing is added at the end of the source
string_end(sc) ==
    IF sc.state = "panicked" THEN sc
    ELSE IF is_at_end(sc) THEN sc
    ELSE IF current_char(sc) = NoChar THEN scanner_panic(sc)
    ELSE string_token([sc EXCEPT !.current = @ + 1])

\* Scanner::string
string(sc) == string_end(string_loop(sc))

\* the digit loops of Scanner::number
RECURSIVE digits_loop(_)
digits_loop(sc) ==
    IF peek(sc) = NoChar THEN scanner_panic(sc)
    ELSE IF is_digit(peek(sc)) THEN digits_loop([sc EXCEPT !.current = @ + 1])
    ELSE sc

\* the value of a run of digits
RECURSIVE digits_value(_)
digits_value(cs) ==
    IF cs = <<>> THEN 0
    ELSE 10 * digits_value(SubSeq(cs, 1, Len(cs) - 1))
         + (CHOOSE d \in 0..9 : ToString(d) = cs[Len(cs)])

\* the texts str::parse::<f64> accepts, among the texts over the characters
\* scanned: digits with at most one `.`, and at least one digit
parse_ok(cs) ==
    /\ \A i \in 1..Len(cs) : is_digit(cs[i]) \/ cs[i] = "."
    /\ \E i \in 1..Len(cs) : is_digit(cs[i])
    /\ \A i, j \in 1..Len(cs) : (cs[i] = "." /\ cs[j] = ".") => i = j

\* str::parse::<f64>: a whole number is the integer, a number with a
\* fraction other than zero the pair of its whole part and the digits of
\* its fraction
parse_f64(cs) ==
    IF \A i \in 1..Len(cs) : cs[i] # "."
    THEN digits_value(cs)
    ELSE LET dot == CHOOSE i \in 1..Len(cs) : cs[i] = "."
         IN IF \A i \in (dot + 1)..Len(cs) : cs[i] = "0"
            THEN digits_value(SubSeq(cs, 1, dot - 1))
            ELSE [whole |-> digits_value(SubSeq(cs, 1, dot - 1)),
                  fraction |-> SubSeq(cs, dot + 1, Len(cs))]

\* Scanner::number, the token: parse().unwrap() panics on a text that is
\* not a number
number_token(sc) ==
    IF sc.state = "panicked" THEN sc
    ELSE IF ~current_string(sc).ok THEN scanner_panic(sc)
    ELSE IF ~parse_ok(current_string(sc).chars) THEN scanner_panic(sc)
    ELSE add_token(sc, "NUMBER", Double(parse_f64(current_string(sc).chars)))

\* Scanner::number after the digits of the whole part: the fraction is
\* consumed when a `.` and then a digit follow
number_fraction(sc) ==
    IF sc.state = "panicked" THEN sc
    ELSE IF peek(sc) # "." THEN number_token(sc)
    ELSE IF peek_next(sc) = NoChar THEN scanner_panic(sc)
    ELSE IF is_digit(peek_next(sc))
         THEN number_token(digits_loop([sc EXCEPT !.current = @ + 1]))
    ELSE number_token(sc)

\* Scanner::number
number(sc) == number_fraction(digits_loop(sc))

\* the lookup in KEYWORDS
keyword(text) ==
    CASE text = "and" -> "AND"
      [] text = "class" -> "CLASS"
      [] text = "else" -> "ELSE"
      [] text = "false" -> "FALSE"
      [] text = "for" -> "FOR"
      [] text = "fun" -> "FUN"
      [] text = "if" -> "IF"
      [] text = "nil" -> "NIL"
      [] text = "or" -> "OR"
      [] text = "print" -> "PRINT"
      [] text = "return" -> "RETURN"
      [] text = "super" -> "SUPER"
      [] text = "this" -> "THIS"
      [] text = "true" -> "TRUE"
      [] text = "var" -> "VAR"
      [] text = "while" -> "WHILE"
      [] OTHER -> "IDENTIFIER"

\* the loop of Scanner::identifier
RECURSIVE identifier_loop(_)
identifier_loop(sc) ==
    IF peek(sc) = NoChar THEN scanner_panic(sc)
    ELSE IF is_alpha_numeric(peek(sc))
         THEN identifier_loop([sc EXCEPT !.current = @ + 1])
    ELSE sc

\* Scanner::identifier, the token
identifier_token(sc) ==
    IF sc.state = "panicked" THEN sc
    ELSE IF ~current_string(sc).ok THEN scanner_panic(sc)
    ELSE add_token_no_literal(sc, keyword(Concat(current_string(sc).chars)))

\* Scanner::identifier
identifier(sc) == identifier_token(identifier_loop(sc))

\* Scanner::scan_token after advance() has returned c
scan_char(sc, c) ==
    CASE c = "(" -> add_token_no_literal(sc, "LEFT_PAREN")
      [] c = ")" -> add_token_no_literal(sc, "RIGHT_PAREN")
      [] c = "{" -> add_token_no_literal(sc, "LEFT_BRACE")
      [] c = "}" -> add_token_no_literal(sc, "RIGHT_BRACE")
      [] c = "," -> add_token_no_literal(sc, "COMMA")
      [] c = "." -> add_token_no_literal(sc, "DOT")
      [] c = "-" -> add_token_no_literal(sc, "MINUS")
      [] c = "+" -> add_token_no_literal(sc, "PLUS")
      [] c = ";" -> add_token_no_literal(sc, "SEMICOLON")
      [] c = "*" -> add_token_no_literal(sc, "STAR")
      [] c = "!" -> add_token_if_match(sc, "=", "BANG_EQUAL", "BANG")
      [] c = "=" -> add_token_if_match(sc, "=", "EQUAL_EQUAL", "EQUAL")
      [] c = "<" -> add_token_if_match(sc, "=", "LESS_EQUAL", "LESS")
      [] c = ">" -> add_token_if_match(sc, "=", "GREATER_EQUAL", "GREATER")
      [] c = "/" -> IF is_at_end(sc) THEN add_token_no_literal(sc, "SLASH")
                    ELSE IF current_char(sc) = NoChar THEN scanner_panic(sc)
                    ELSE IF current_char(sc) = "/"
                         THEN skip_comment([sc EXCEPT !.current = @ + 1])
                    ELSE add_token_no_literal(sc, "SLASH")
      [] c \in {" ", "\r", "\t"} -> sc
      [] c = "\n" -> [sc EXCEPT !.line = @ + 1]
      [] c = "\"" -> string(sc)
      [] OTHER -> IF is_digit(c) THEN number(sc)
                  ELSE IF is_alpha(c) THEN identifier(sc)
                  ELSE sc

\* Scanner::scan_token
scan_token(sc) ==
    IF current_char(sc) = NoChar THEN scanner_panic(sc)
    ELSE scan_char([sc EXCEPT !.current = @ + 1], current_char(sc))

\* Scanner::scan_tokens at the end of the source: EOF is pushed and the
\* tokens are returned
scan_eof(sc) ==
    [sc EXCEPT !.tokens = Append(@, [ttype |-> "EOF", literal |-> NoLiteral,
                                     lexeme |-> "", line |-> sc.line]),
               !.state = "returned"]

\* Scanner::scan_tokens
RECURSIVE scan_tokens(_)
scan_tokens(sc) ==
    IF sc.state = "panicked" THEN sc
    ELSE IF is_at_end(sc) THEN scan_eof(sc)
    ELSE scan_tokens(scan_token([sc EXCEPT !.start = sc.current]))

-----------------------------------------------------------------------------
(* SpecScan: Scanner::new(source) followed by scan_tokens, one iteration of
   its loop at a time *)

RECURSIVE Texts(_)
Texts(n) ==
    IF n = 0 THEN {<<>>}
    ELSE {Append(t, c) : t \in Texts(n - 1), c \in Alphabet}

\* the source texts of up to MaxSource characters
Sources == UNION {Texts(n) : n \in 0..MaxSource}

InitScan ==
    /\ scanner \in {ScannerNew(source) : source \in Sources}
    /\ parser = NoParser
    /\ had_error = FALSE
    /\ heap = <<>>
    /\ last = NoOp
    /\ nops = 0
    /\ program = <<>>
    /\ pc = 1
    /\ status = "idle"
    /\ environment = None
    /\ output = <<>>
    /\ log = <<>>

\* one iteration of the loop of scan_tokens
ScanToken ==
    /\ scanner.state = "scanning"
    /\ ~is_at_end(scanner)
    /\ scanner' = scan_token([scanner EXCEPT !.start = scanner.current])
    /\ UNCHANGED <<envVars, runVars, parseVars>>

\* the exit of the loop of scan_tokens
ScanEof ==
    /\ scanner.state = "scanning"
    /\ is_at_end(scanner)
    /\ scanner' = scan_eof(scanner)
    /\ UNCHANGED <<envVars, runVars, parseVars>>

NextScan == ScanToken \/ ScanEof

SpecScan == InitScan /\ [][NextScan]_vars

-----------------------------------------------------------------------------
(* Parser: src/src/parser.rs

   A Parser is a record: the token vector, the cursor `current` (an index
   counted from 0, so that the current token is tokens[current + 1]), and the
   statements pushed so far by parse().  A panic!() leaves state "panicked".
   Three fields are history only: `trail` holds every value the cursor has
   taken, `decls` the cursor before and after every declaration() that
   returned, `dropped` every ParseError that was built and then discarded.
   `reported` is what the parser has written for the user.

   The expression methods return Result<Expr, ParseError>: ParseOk or
   ParseErr, each with the parser after the call.  The statement methods
   return a Stmt: Parsed, with the parser after the call.

   An identifier token is named by its lexeme and an operator token by its
   ttype, as in the syntax trees above.  is_match(ttypes) is written as
   check for each of ttypes and then parser_advance; consume(ttype, message)
   as check and then parser_advance, its Err being current_error(message). *)

\* no ParseError
NoError == [message |-> "", line |-> 0, error_where |-> ""]

\* Parser::new; ParseError::report is commented out, nothing is ever reported
ParserNew(tokens) ==
    [state |-> "parsing", tokens |-> tokens, current |-> 0,
     statements |-> <<>>, reported |-> <<>>, dropped |-> <<>>,
     trail |-> <<0>>, decls |-> <<>>]

parser_panic(p) == [p EXCEPT !.state = "panicked"]

\* Ok(expr)
ParseOk(p, expr) == [p |-> p, ok |-> TRUE, expr |-> expr, err |-> NoError]

\* Err(err)
ParseErr(p, err) == [p |-> p, ok |-> FALSE, expr |-> NoExpr, err |-> err]

\* a statement method has returned stmt
Parsed(p, stmt) == [p |-> p, stmt |-> stmt]

\* a statement method has panicked
ParsePanic(p) == Parsed(parser_panic(p), NoStmt)

\* Parser::peek
parser_peek(p) == p.tokens[p.current + 1]

\* Parser::previous
previous(p) == p.tokens[p.current]

\* Parser::is_at_end
parser_is_at_end(p) == parser_peek(p).ttype = "EOF"

\* Parser::check
check(p, ttype) ==
    IF parser_is_at_end(p) THEN FALSE ELSE parser_peek(p).ttype = ttype

\* Parser::advance: previous() indexes the vector with current - 1
parser_advance(p) ==
    IF ~parser_is_at_end(p)
    THEN [p EXCEPT !.current = @ + 1, !.trail = Append(@, p.current + 1)]
    ELSE IF p.current = 0 THEN parser_panic(p) ELSE p

\* Parser::error
error(token, message) ==
    IF token.ttype = "EOF"
    THEN [message |-> message, line |-> token.line, error_where |-> " at end "]
    ELSE [message |-> message, line |-> token.line,
          error_where |-> " at '" \o token.lexeme \o "'"]

\* Parser::current_error
current_error(p, message) == error(parser_peek(p), message)

RECURSIVE expression(_), assignment(_), or(_), or_loop(_), and(_), and_loop(_),
          equality(_), equality_loop(_), comparison(_), comparison_loop(_),
          term(_), term_loop(_), factor(_), factor_loop(_), unary(_),
          parser_call(_), call_loop(_), finish_call(_, _),
          finish_call_loop(_, _, _), primary(_)

\* primary, after the expression between the parentheses: the `)` is
\* consumed before the expression's own error is looked at
primary_on_expression(expr_result) ==
    IF expr_result.p.state = "panicked" THEN expr_result
    ELSE IF ~check(expr_result.p, "RIGHT_PAREN")
         THEN ParseErr(expr_result.p,
                       current_error(expr_result.p, "Expect ')' after expression."))
    ELSE IF expr_result.ok
         THEN ParseOk(parser_advance(expr_result.p), Grouping(expr_result.expr))
    ELSE ParseErr(parser_advance(expr_result.p), expr_result.err)

\* Parser::primary; literal.unwrap() panics on a token without a literal
primary(p) ==
    IF check(p, "FALSE") THEN ParseOk(parser_advance(p), Literal(Boolean(FALSE)))
    ELSE IF check(p, "TRUE") THEN ParseOk(parser_advance(p), Literal(Boolean(TRUE)))
    ELSE IF check(p, "NIL") THEN ParseOk(parser_advance(p), Literal(Nil))
    ELSE IF check(p, "NUMBER") \/ check(p, "STRING")
         THEN IF parser_peek(p).literal.t = "None"
              THEN ParseErr(parser_panic(parser_advance(p)), NoError)
              ELSE ParseOk(parser_advance(p), Literal(parser_peek(p).literal))
    ELSE IF check(p, "IDENTIFIER")
         THEN ParseOk(parser_advance(p), Variable(parser_peek(p).lexeme))
    ELSE IF check(p, "LEFT_PAREN")
         THEN primary_on_expression(expression(parser_advance(p)))
    ELSE ParseErr(p, current_error(p, "this shouldn't happen"))

\* finish_call, after its loop
finish_call_close(callee, arguments, p) ==
    IF check(p, "RIGHT_PAREN")
    THEN ParseOk(parser_advance(p), Call(callee, arguments))
    ELSE ParseErr(p, current_error(p, "Expect ')' after arguments."))

\* the loop of finish_call, after one argument
finish_call_on_argument(callee, arguments, arg) ==
    IF ~arg.ok THEN arg
    ELSE IF check(arg.p, "COMMA")
         THEN finish_call_loop(callee, Append(arguments, arg.expr),
                               parser_advance(arg.p))
    ELSE finish_call_close(callee, Append(arguments, arg.expr), arg.p)

\* the loop of finish_call
finish_call_loop(callee, arguments, p) ==
    IF Len(arguments) >= 255
    THEN ParseErr(p, error(parser_peek(p), "Can't have more than 255 arguments"))
    ELSE finish_call_on_argument(callee, arguments, expression(p))

\* Parser::finish_call
finish_call(callee, p) ==
    IF ~check(p, "RIGHT_PAREN") THEN finish_call_loop(callee, <<>>, p)
    ELSE finish_call_close(callee, <<>>, p)

\* the loop of call: expr is Ok(the callee so far) or the Err to return
call_loop(expr) ==
    IF ~expr.ok THEN expr
    ELSE IF check(expr.p, "LEFT_PAREN")
         THEN call_loop(finish_call(expr.expr, parser_advance(expr.p)))
    ELSE expr

\* Parser::call
parser_call(p) == call_loop(primary(p))

\* unary, after its operand
unary_on_operand(operator, right_result) ==
    IF ~right_result.ok THEN right_result
    ELSE ParseOk(right_result.p, Unary(operator, right_result.expr))

\* Parser::unary
unary(p) ==
    IF check(p, "BANG") \/ check(p, "MINUS")
    THEN unary_on_operand(parser_peek(p).ttype, unary(parser_advance(p)))
    ELSE parser_call(p)

\* one turn of the loop of equality, comparison and factor: Err is returned
binary_on_operand(expr, operator, right_result) ==
    IF ~right_result.ok THEN right_result
    ELSE ParseOk(right_result.p, Binary(expr.expr, operator, right_result.expr))

\* the loop of factor
factor_loop(expr) ==
    IF ~expr.ok THEN expr
    ELSE IF check(expr.p, "SLASH") \/ check(expr.p, "STAR")
         THEN factor_loop(binary_on_operand(expr, parser_peek(expr.p).ttype,
                                            unary(parser_advance(expr.p))))
    ELSE expr

\* Parser::factor
factor(p) == factor_loop(unary(p))

\* one turn of the loop of term: on Err(_) the loop goes on with the
\* expression it had
term_on_operand(expr, operator, right_result) ==
    IF right_result.p.state = "panicked" THEN right_result
    ELSE IF right_result.ok
         THEN ParseOk(right_result.p,
                      Binary(expr.expr, operator, right_result.expr))
    ELSE ParseOk(right_result.p, expr.expr)

\* (variant: the right operand of `-` and `+` is a unary, not a factor)
term_loop_flat(expr) ==
    IF ~expr.ok THEN expr
    ELSE IF check(expr.p, "MINUS") \/ check(expr.p, "PLUS")
         THEN term_loop(term_on_operand(expr, parser_peek(expr.p).ttype,
                                        unary(parser_advance(expr.p))))
    ELSE expr

\* the loop of term
term_loop(expr) ==
    IF ~expr.ok THEN expr
    ELSE IF check(expr.p, "MINUS") \/ check(expr.p, "PLUS")
         THEN term_loop(term_on_operand(expr, parser_peek(expr.p).ttype,
                                        factor(parser_advance(expr.p))))
    ELSE expr

\* Parser::term
term(p) == term_loop(factor(p))

\* the loop of comparison
comparison_loop(expr) ==
    IF ~expr.ok THEN expr
    ELSE IF \E ttype \in {"GREATER", "GREATER_EQUAL", "LESS", "LESS_EQUAL"} :
                check(expr.p, ttype)
         THEN comparison_loop(binary_on_operand(expr, parser_peek(expr.p).ttype,
                                                term(parser_advance(expr.p))))
    ELSE expr

\* Parser::comparison
comparison(p) == comparison_loop(term(p))

\* the loop of equality
equality_loop(expr) ==
    IF ~expr.ok THEN expr
    ELSE IF check(expr.p, "BANG_EQUAL") \/ check(expr.p, "EQUAL_EQUAL")
         THEN equality_loop(binary_on_operand(expr, parser_peek(expr.p).ttype,
                                              comparison(parser_advance(expr.p))))
    ELSE expr

\* Parser::equality
equality(p) == equality_loop(comparison(p))

\* one turn of the loop of or and of and
logical_on_operand(expr, operator, right_result) ==
    IF ~right_result.ok THEN right_result
    ELSE ParseOk(right_result.p, Logical(expr.expr, operator, right_result.expr))

\* the loop of and
and_loop(expr) ==
    IF ~expr.ok THEN expr
    ELSE IF check(expr.p, "AND")
         THEN and_loop(logical_on_operand(expr, "AND",
                                          equality(parser_advance(expr.p))))
    ELSE expr

\* Parser::and
and(p) == and_loop(equality(p))

\* the loop of or
or_loop(expr) ==
    IF ~expr.ok THEN expr
    ELSE IF check(expr.p, "OR")
         THEN or_loop(logical_on_operand(expr, "OR", and(parser_advance(expr.p))))
    ELSE expr

\* Parser::or
or(p) == or_loop(and(p))

\* (variant: on an invalid target the cursor goes back to the `=`)
assignment_on_value_rewinding(expr, value) ==
    IF value.p.state = "panicked" THEN value
    ELSE IF ~expr.ok THEN ParseErr(value.p, expr.err)
    ELSE IF ~value.ok THEN value
    ELSE IF expr.expr.e = "Variable"
         THEN ParseOk(value.p, AssignExpr(expr.expr.name, value.expr))
    ELSE ParseErr([value.p EXCEPT !.current = expr.p.current,
                                  !.trail = Append(@, expr.p.current)],
                  current_error(expr.p, "Invalid assignment target"))

\* assignment, after the value on the right of `=`
assignment_on_value(expr, value) ==
    IF value.p.state = "panicked" THEN value
    ELSE IF ~expr.ok THEN ParseErr(value.p, expr.err)
    ELSE IF ~value.ok THEN value
    ELSE IF expr.expr.e = "Variable"
         THEN ParseOk(value.p, AssignExpr(expr.expr.name, value.expr))
    ELSE ParseErr(value.p, current_error(value.p, "Invalid assignment target"))

\* assignment, after its left side: `=` is matched whether or not the left
\* side is an Err
assignment_on_expr(expr) ==
    IF expr.p.state = "panicked" THEN expr
    ELSE IF check(expr.p, "EQUAL")
         THEN assignment_on_value(expr, assignment(parser_advance(expr.p)))
    ELSE expr

\* Parser::assignment
assignment(p) == assignment_on_expr(or(p))

\* Parser::expression
expression(p) == assignment(p)

RECURSIVE declaration(_), function(_), statement(_), block(_),
          block_loop(_, _), for_statement(_), while_statement(_),
          if_statement(_)

\* expression_statement, after the expression: the `;` is consumed before
\* the expression's own error is looked at, and either failure panics
expression_statement_on_expr(expr_result) ==
    IF expr_result.p.state = "panicked" THEN Parsed(expr_result.p, NoStmt)
    ELSE IF ~check(expr_result.p, "SEMICOLON") THEN ParsePanic(expr_result.p)
    ELSE IF expr_result.ok
         THEN Parsed(parser_advance(expr_result.p), ExpressionStmt(expr_result.expr))
    ELSE ParsePanic(parser_advance(expr_result.p))

\* Parser::expression_statement
expression_statement(p) == expression_statement_on_expr(expression(p))

\* print_statement, after the expression
print_statement_on_expr(expr_result) ==
    IF expr_result.p.state = "panicked" THEN Parsed(expr_result.p, NoStmt)
    ELSE IF ~check(expr_result.p, "SEMICOLON") THEN ParsePanic(expr_result.p)
    ELSE IF expr_result.ok
         THEN Parsed(parser_advance(expr_result.p), PrintStmt(expr_result.expr))
    ELSE ParsePanic(parser_advance(expr_result.p))

\* Parser::print_statement
print_statement(p) == print_statement_on_expr(expression(p))

\* var_declaration, after the initializer
var_declaration_on_initializer(name, initializer_result) ==
    IF initializer_result.p.state = "panicked"
    THEN Parsed(initializer_result.p, NoStmt)
    ELSE IF ~initializer_result.ok THEN ParsePanic(initializer_result.p)
    ELSE IF check(initializer_result.p, "SEMICOLON")
         THEN Parsed(parser_advance(initializer_result.p),
                     VarStmt(name, initializer_result.expr))
    ELSE ParsePanic(initializer_result.p)

\* var_declaration, after the name
var_declaration_on_name(name, p) ==
    IF check(p, "EQUAL")
    THEN var_declaration_on_initializer(name, expression(parser_advance(p)))
    ELSE IF check(p, "SEMICOLON") THEN Parsed(parser_advance(p), VarStmt(name, NoExpr))
    ELSE ParsePanic(p)

\* Parser::var_declaration
var_declaration(p) ==
    IF check(p, "IDENTIFIER")
    THEN var_declaration_on_name(parser_peek(p).lexeme, parser_advance(p))
    ELSE ParsePanic(p)

\* block, after its loop
block_close(statements, p) ==
    IF check(p, "RIGHT_BRACE") THEN Parsed(parser_advance(p), BlockStmt(statements))
    ELSE ParsePanic(p)

\* the loop of block, after one declaration
block_on_declaration(statements, d) ==
    IF d.p.state = "panicked" THEN d
    ELSE block_loop(Append(statements, d.stmt), d.p)

\* the loop of block
block_loop(statements, p) ==
    IF ~check(p, "RIGHT_BRACE") /\ ~parser_is_at_end(p)
    THEN block_on_declaration(statements, declaration(p))
    ELSE block_close(statements, p)

\* Parser::block: the Vec<Stmt> it returns is the statements of the Block
block(p) == block_loop(<<>>, p)

\* (variant: the increment runs before the body)
for_desugar_increment_first(initializer, condition, increment, body) ==
    LET with_increment ==
            IF increment.e # "None"
            THEN BlockStmt(<<ExpressionStmt(increment), body>>)
            ELSE body
        loop == WhileStmt(IF condition.e = "None" THEN Literal(Boolean(TRUE))
                                                  ELSE condition,
                          with_increment)
    IN IF initializer.s # "None" THEN BlockStmt(<<initializer, loop>>) ELSE loop

\* the tree that for_statement builds from its clauses: initializer is
\* NoStmt, and condition and increment are NoExpr, when the clause is
\* absent (or, for the increment, when it failed to parse)
for_desugar(initializer, condition, increment, body) ==
    LET with_increment ==
            IF increment.e # "None"
            THEN BlockStmt(<<body, ExpressionStmt(increment)>>)
            ELSE body
        loop == WhileStmt(IF condition.e = "None" THEN Literal(Boolean(TRUE))
                                                  ELSE condition,
                          with_increment)
    IN IF initializer.s # "None" THEN BlockStmt(<<initializer, loop>>) ELSE loop

\* for_statement, after the body: Some(Err) as the increment is dropped,
\* Some(Err) as the condition panics
for_on_body(initializer, condition, increment, b) ==
    IF b.p.state = "panicked" THEN b
    ELSE IF ~condition.ok THEN ParsePanic(b.p)
    ELSE Parsed(b.p, for_desugar(initializer, condition.expr,
                                 IF increment.ok THEN increment.expr ELSE NoExpr,
                                 b.stmt))

\* for_statement, after the increment clause
for_on_increment(initializer, condition, increment) ==
    IF increment.p.state = "panicked" THEN Parsed(increment.p, NoStmt)
    ELSE IF ~check(increment.p, "RIGHT_PAREN") THEN ParsePanic(increment.p)
    ELSE for_on_body(initializer, condition, increment,
                     statement(parser_advance(increment.p)))

\* for_statement, after the `;` that ends the condition clause: None is
\* Ok(NoExpr)
for_increment(initializer, condition, p) ==
    IF ~check(p, "RIGHT_PAREN")
    THEN for_on_increment(initializer, condition, expression(p))
    ELSE for_on_increment(initializer, condition, ParseOk(p, NoExpr))

\* for_statement, after the condition clause
for_on_condition(initializer, condition) ==
    IF condition.p.state = "panicked" THEN Parsed(condition.p, NoStmt)
    ELSE IF ~check(condition.p, "SEMICOLON") THEN ParsePanic(condition.p)
    ELSE for_increment(initializer, condition, parser_advance(condition.p))

\* for_statement, after the initializer clause: None is Ok(NoExpr)
for_on_initializer(i) ==
    IF i.p.state = "panicked" THEN i
    ELSE IF ~check(i.p, "SEMICOLON")
         THEN for_on_condition(i.stmt, expression(i.p))
    ELSE for_on_condition(i.stmt, ParseOk(i.p, NoExpr))

\* for_statement, after the `(`
for_initializer(p) ==
    IF check(p, "SEMICOLON") THEN for_on_initializer(Parsed(parser_advance(p), NoStmt))
    ELSE IF check(p, "VAR") THEN for_on_initializer(var_declaration(parser_advance(p)))
    ELSE for_on_initializer(expression_statement(p))

\* Parser::for_statement
for_statement(p) ==
    IF check(p, "LEFT_PAREN") THEN for_initializer(parser_advance(p))
    ELSE ParsePanic(p)

\* while_statement, after the body
while_statement_on_body(condition, b) ==
    IF b.p.state = "panicked" THEN b
    ELSE Parsed(b.p, WhileStmt(condition, b.stmt))

\* while_statement, after the condition
while_statement_on_condition(condition) ==
    IF condition.p.state = "panicked" THEN Parsed(condition.p, NoStmt)
    ELSE IF ~condition.ok THEN ParsePanic(condition.p)
    ELSE IF ~check(condition.p, "RIGHT_PAREN") THEN ParsePanic(condition.p)
    ELSE while_statement_on_body(condition.expr,
                                 statement(parser_advance(condition.p)))

\* Parser::while_statement
while_statement(p) ==
    IF check(p, "LEFT_PAREN")
    THEN while_statement_on_condition(expression(parser_advance(p)))
    ELSE ParsePanic(p)

\* if_statement, after the else branch
if_statement_on_else(condition, then_branch, e) ==
    IF e.p.state = "panicked" THEN e
    ELSE Parsed(e.p, IfStmt(condition, then_branch, e.stmt))

\* if_statement, after the then branch
if_statement_on_then(condition, t) ==
    IF t.p.state = "panicked" THEN t
    ELSE IF check(t.p, "ELSE")
         THEN if_statement_on_else(condition, t.stmt,
                                   statement(parser_advance(t.p)))
    ELSE Parsed(t.p, IfStmt(condition, t.stmt, NoStmt))

\* if_statement, after the condition
if_statement_on_condition(condition) ==
    IF condition.p.state = "panicked" THEN Parsed(condition.p, NoStmt)
    ELSE IF ~condition.ok THEN ParsePanic(condition.p)
    ELSE IF ~check(condition.p, "RIGHT_PAREN") THEN ParsePanic(condition.p)
    ELSE if_statement_on_then(condition.expr,
                              statement(parser_advance(condition.p)))

\* Parser::if_statement
if_statement(p) ==
    IF check(p, "LEFT_PAREN")
    THEN if_statement_on_condition(expression(parser_advance(p)))
    ELSE ParsePanic(p)

\* Parser::statement
statement(p) ==
    IF check(p, "FOR") THEN for_statement(parser_advance(p))
    ELSE IF check(p, "IF") THEN if_statement(parser_advance(p))
    ELSE IF check(p, "WHILE") THEN while_statement(parser_advance(p))
    ELSE IF check(p, "PRINT") THEN print_statement(parser_advance(p))
    ELSE IF check(p, "LEFT_BRACE") THEN block(parser_advance(p))
    ELSE expression_statement(p)

\* the token at index i, counted from 0, has type ttype
TokenIs(p, i, ttype) == i + 1 <= Len(p.tokens) /\ p.tokens[i + 1].ttype = ttype

\* the parameter loop of function, entered at the first parameter: it goes
\* round once for every IDENTIFIER that a COMMA follows
parameter_turns(p) ==
    CHOOSE m \in 0..Len(p.tokens) :
        /\ \A j \in 0..(m - 1) : /\ TokenIs(p, p.current + 2 * j, "IDENTIFIER")
                                 /\ TokenIs(p, p.current + 2 * j + 1, "COMMA")
        /\ ~(/\ TokenIs(p, p.current + 2 * m, "IDENTIFIER")
             /\ TokenIs(p, p.current + 2 * m + 1, "COMMA"))

\* function, after the body
function_on_body(name, parameters, b) ==
    IF b.p.state = "panicked" THEN b
    ELSE Parsed(b.p, FunctionStmt(name, parameters, b.stmt.statements))

\* function, after the parameters
function_on_parameters(name, parameters, p) ==
    IF ~check(p, "RIGHT_PAREN") THEN ParsePanic(p)
    ELSE IF ~check(parser_advance(p), "LEFT_BRACE")
         THEN ParsePanic(parser_advance(p))
    ELSE function_on_body(name, parameters,
                          block(parser_advance(parser_advance(p))))

\* the parameter loop of function after m turns, its last turn next: with
\* 255 parameters or more a ParseError is built and discarded at the top of
\* the turn, and a missing parameter name panics
function_parameters(name, p, m) ==
    LET at(j) == p.tokens[p.current + 2 * j + 1]
        discarded == [k \in 1..(IF m >= 255 THEN m - 254 ELSE 0) |->
                         error(at(254 + k), "Can't have more than 255 parameters.")]
        last_turn == [p EXCEPT !.current = p.current + 2 * m,
                               !.trail = @ \o [k \in 1..(2 * m) |-> p.current + k],
                               !.dropped = @ \o discarded]
    IN IF ~check(last_turn, "IDENTIFIER") THEN ParsePanic(last_turn)
       ELSE function_on_parameters(name,
                [j \in 1..(m + 1) |-> at(j - 1).lexeme],
                parser_advance(last_turn))

\* function, after the `(`
function_on_paren(name, p) ==
    IF check(p, "RIGHT_PAREN") THEN function_on_parameters(name, <<>>, p)
    ELSE function_parameters(name, p, parameter_turns(p))

\* Parser::function
function(p) ==
    IF ~check(p, "IDENTIFIER") THEN ParsePanic(p)
    ELSE IF ~check(parser_advance(p), "LEFT_PAREN")
         THEN ParsePanic(parser_advance(p))
    ELSE function_on_paren(parser_peek(p).lexeme,
                           parser_advance(parser_advance(p)))

\* declaration, returning
declaration_return(from, d) ==
    IF d.p.state = "panicked" THEN d
    ELSE [d EXCEPT !.p.decls = Append(@, [from |-> from, to |-> d.p.current])]

\* Parser::declaration
declaration(p) ==
    IF check(p, "FUN") THEN declaration_return(p.current, function(parser_advance(p)))
    ELSE IF check(p, "VAR")
         THEN declaration_return(p.current, var_declaration(parser_advance(p)))
    ELSE declaration_return(p.current, statement(p))

\* the loop of parse, after one declaration
parse_on_declaration(d) ==
    IF d.p.state = "panicked" THEN d.p
    ELSE [d.p EXCEPT !.statements = Append(@, d.stmt)]

\* Parser::parse, returning
parse_return(p) == [p EXCEPT !.state = "returned"]

RECURSIVE parse(_)
\* Parser::parse
parse(p) ==
    IF p.state = "panicked" THEN p
    ELSE IF parser_is_at_end(p) THEN parse_return(p)
    ELSE parse(parse_on_declaration(declaration(p)))

-----------------------------------------------------------------------------
(* SpecParse: Parser::new(tokens) followed by parse, one iteration of its
   loop at a time.  The token vectors are those a Scanner can produce: they
   end with EOF and a NUMBER carries its literal. *)

LexemeOf ==
    ("LEFT_PAREN" :> "(") @@ ("RIGHT_PAREN" :> ")") @@
    ("LEFT_BRACE" :> "{") @@ ("RIGHT_BRACE" :> "}") @@ ("COMMA" :> ",") @@
    ("MINUS" :> "-") @@ ("PLUS" :> "+") @@ ("SEMICOLON" :> ";") @@
    ("SLASH" :> "/") @@ ("STAR" :> "*") @@ ("BANG" :> "!") @@
    ("BANG_EQUAL" :> "!=") @@ ("EQUAL" :> "=") @@ ("EQUAL_EQUAL" :> "==") @@
    ("GREATER" :> ">") @@ ("GREATER_EQUAL" :> ">=") @@ ("LESS" :> "<") @@
    ("LESS_EQUAL" :> "<=") @@ ("AND" :> "and") @@ ("ELSE" :> "else") @@
    ("FALSE" :> "false") @@ ("FUN" :> "fun") @@ ("FOR" :> "for") @@
    ("IF" :> "if") @@ ("NIL" :> "nil") @@ ("OR" :> "or") @@
    ("PRINT" :> "print") @@ ("TRUE" :> "true") @@ ("VAR" :> "var") @@
    ("WHILE" :> "while") @@ ("EOF" :> "")

Tok(ttype) ==
    [ttype |-> ttype, literal |-> NoLiteral, lexeme |-> LexemeOf[ttype], line |-> 1]
NumberTok(n) ==
    [ttype |-> "NUMBER", literal |-> Double(n), lexeme |-> ToString(n), line |-> 1]
IdentifierTok(name) ==
    [ttype |-> "IDENTIFIER", literal |-> NoLiteral, lexeme |-> name, line |-> 1]
Toks(ttypes) == [i \in 1..Len(ttypes) |-> Tok(ttypes[i])]

TokenAlphabet ==
    {NumberTok(1), IdentifierTok("a")} \cup
    {Tok(ttype) : ttype \in {"PLUS", "MINUS", "EQUAL", "SEMICOLON", "LEFT_PAREN",
                             "RIGHT_PAREN", "LEFT_BRACE", "RIGHT_BRACE",
                             "PRINT", "VAR"}}

\* every token vector of n tokens before the EOF
ShortInputs(n) ==
    {Append(tokens, Tok("EOF")) : tokens \in [1..n -> TokenAlphabet]}

BinaryTokenTypes ==
    {"BANG_EQUAL", "EQUAL_EQUAL", "GREATER", "GREATER_EQUAL", "LESS",
     "LESS_EQUAL", "MINUS", "PLUS", "SLASH", "STAR"}

\* 1 op 2 op 3 ... ; for the operators ops
ExprTokens(ops) ==
    <<NumberTok(1)>> \o
    [i \in 1..(2 * Len(ops)) |->
        IF i % 2 = 1 THEN Tok(ops[(i + 1) \div 2]) ELSE NumberTok(i \div 2 + 1)]

RECURSIVE OperatorSeqs(_)
OperatorSeqs(n) ==
    IF n = 0 THEN {<<>>}
    ELSE {Append(ops, op) : ops \in OperatorSeqs(n - 1), op \in BinaryTokenTypes}

\* every expression statement of literals and at most MaxOperators binary
\* operators, without parentheses
ExprInputs ==
    UNION {{ExprTokens(ops) \o Toks(<<"SEMICOLON", "EOF">>) :
               ops \in OperatorSeqs(n)} : n \in 0..MaxOperators}

NumberLexemes == ("0" :> 0) @@ ("1" :> 1) @@ ("2" :> 2) @@ ("3" :> 3)

\* the token vector of a program written as its lexemes
Lexed(words) ==
    [i \in 1..(Len(words) + 1) |->
        IF i > Len(words) THEN Tok("EOF")
        ELSE IF words[i] \in DOMAIN NumberLexemes
             THEN NumberTok(NumberLexemes[words[i]])
        ELSE IF \E ttype \in DOMAIN LexemeOf : LexemeOf[ttype] = words[i]
             THEN Tok(CHOOSE ttype \in DOMAIN LexemeOf : LexemeOf[ttype] = words[i])
        ELSE IdentifierTok(words[i])]

\* an assignment to 1, in every statement position
InvalidAssignments ==
    {Lexed(<<"1", "=", "2", ";">>),
     Lexed(<<"print", "1", "=", "2", ";">>),
     Lexed(<<"var", "a", "=", "1", "=", "2", ";">>),
     Lexed(<<"{", "1", "=", "2", ";", "}">>),
     Lexed(<<"if", "(", "1", "=", "2", ")", "3", ";">>),
     Lexed(<<"while", "(", "1", "=", "2", ")", "3", ";">>),
     Lexed(<<"for", "(", "1", "=", "2", ";", ";", ")", "3", ";">>),
     Lexed(<<"for", "(", ";", "1", "=", "2", ";", ")", "3", ";">>),
     Lexed(<<"fun", "f", "(", ")", "{", "1", "=", "2", ";", "}">>)}

\* the clauses of a for loop: their lexemes and the trees they stand for
ForInitializers ==
    {[words |-> <<";">>, stmt |-> NoStmt],
     [words |-> <<"var", "i", "=", "0", ";">>, stmt |-> VarStmt("i", Num(0))],
     [words |-> <<"i", "=", "0", ";">>,
      stmt |-> ExpressionStmt(AssignExpr("i", Num(0)))]}
ForConditions ==
    {[words |-> <<>>, expr |-> NoExpr],
     [words |-> <<"i", "<", "2">>, expr |-> Binary(Variable("i"), "LESS", Num(2))]}
ForIncrements ==
    {[words |-> <<>>, expr |-> NoExpr],
     [words |-> <<"i", "=", "i", "+", "1">>,
      expr |-> AssignExpr("i", Binary(Variable("i"), "PLUS", Num(1)))]}
ForLoops ==
    [initializer : ForInitializers, condition : ForConditions,
     increment : ForIncrements]

\* var i = 1; for (initializer condition; increment) print i; print i;
ForWords(loop) ==
    <<"var", "i", "=", "1", ";", "for", "(">> \o loop.initializer.words
        \o loop.condition.words \o <<";">> \o loop.increment.words
        \o <<")", "print", "i", ";", "print", "i", ";">>

ForInputs == {Lexed(ForWords(loop)) : loop \in ForLoops}

\* a statement that fails to parse, the `;` that ends it, and a statement
\* that parses
FailureThenStatement ==
    {Lexed(<<"print", ";", "1", ";">>), Lexed(<<")", ";", "1", ";">>),
     Lexed(<<"1", "1", ";", "a", ";">>), Lexed(<<"(", "1", ";", "a", ";">>)}

\* lengths of parameter lists, on both sides of the limit, and of argument
\* lists
LimitCounts == {0, 1, 2, 254, 255, 256, 257}
ArgumentCounts == {0, 1, 2, 3}

\* a, b, a, b, ... with the comma between
Listed(items) ==
    [i \in 1..(IF Len(items) = 0 THEN 0 ELSE 2 * Len(items) - 1) |->
        IF i % 2 = 1 THEN items[(i + 1) \div 2] ELSE ","]

\* fun f(p1, ..., pn) { }
FunInput(n) == Lexed(<<"fun", "f", "(">> \o Listed(Params(n)) \o <<")", "{", "}">>)

\* f(1, ..., 1);
CallInput(k) ==
    Lexed(<<"f", "(">> \o Listed([i \in 1..k |-> "1"]) \o <<")", ";">>)

LimitInputs ==
    {FunInput(n) : n \in LimitCounts} \cup {CallInput(k) : k \in ArgumentCounts}

\* a binary operator without its right operand, and a for loop whose
\* increment does not parse
MissingOperands ==
    {Lexed(<<"1", "+", ";">>), Lexed(<<"1", "-", ";">>),
     Lexed(<<"print", "1", "+", ";">>), Lexed(<<"1", "+", "*", "2", ";">>),
     Lexed(<<"var", "a", "=", "1", "-", ";">>),
     Lexed(<<"1", "*", ";">>), Lexed(<<"1", "<", ";">>), Lexed(<<"1", "==", ";">>),
     Lexed(<<"1", "or", ";">>), Lexed(<<"1", "and", ";">>),
     Lexed(<<"for", "(", ";", ";", "1", "=", "2", ")", "print", "1", ";">>),
     Lexed(<<"for", "(", ";", ";", "1", "*", ")", "print", "1", ";">>)}

\* the programs written out above
WrittenInputs ==
    InvalidAssignments \cup ForInputs \cup FailureThenStatement \cup LimitInputs
        \cup MissingOperands

InitParse ==
    /\ \/ \E n \in 0..MaxTokens : \E tokens \in ShortInputs(n) :
              parser = ParserNew(tokens)
       \/ \E tokens \in ExprInputs \cup WrittenInputs : parser = ParserNew(tokens)
    /\ had_error = FALSE
    /\ scanner = NoScanner
    /\ heap = <<>>
    /\ last = NoOp
    /\ nops = 0
    /\ program = <<>>
    /\ pc = 1
    /\ status = "idle"
    /\ environment = None
    /\ output = <<>>
    /\ log = <<>>

\* one iteration of the loop of parse
ParseDeclaration ==
    /\ parser.state = "parsing"
    /\ ~parser_is_at_end(parser)
    /\ parser' = parse_on_declaration(declaration(parser))
    /\ UNCHANGED <<envVars, runVars, scanVars, had_error>>

\* parse leaves its loop and returns the statements
ParseReturn ==
    /\ parser.state = "parsing"
    /\ parser_is_at_end(parser)
    /\ parser' = parse_return(parser)
    /\ UNCHANGED <<envVars, runVars, scanVars, had_error>>

NextParse == ParseDeclaration \/ ParseReturn

SpecParse == InitParse /\ [][NextParse]_vars

-----------------------------------------------------------------------------
(* main: src/src/main.rs

   run(source) scans, parses and interprets with a new Interpreter; a panic
   in any of the three ends the process.  HAD_ERROR is the variable
   had_error: run does not write it (error and report, which would, are
   commented out), prompt() sets it to false after every line, and main
   reads it after the run of a file.  status is the position of the process:
   "idle" at the start of main, "ran" in prompt() between run and the reset
   of the flag, "prompt" at the top of the loop of prompt(), "exited" after
   the run of a file or the usage message, "end of input" after prompt(),
   "aborted" after a panic.  `last` remembers how the last run went. *)

\* the characters of a text
Chars(text) == [i \in 1..Len(text) |-> SubSeq(text, i, i)]

\* the loop of Interpreter::interpret, as a whole: an Err is printed and
\* ends the loop
RECURSIVE interpret_statements(_, _, _)
interpret_statements_on_result(statements, i, r) ==
    IF r.res.kind = "Ok" THEN interpret_statements(statements, i + 1, r.st)
    ELSE IF r.res.kind \in {"RuntimeError", "Return"}
         THEN [st |-> [r.st EXCEPT !.output =
                          Append(@, "Runtime Error caught at interpret: "
                                        \o r.res.kind)],
               res |-> r.res]
    ELSE r

interpret_statements(statements, i, st) ==
    IF i > Len(statements) THEN [st |-> st, res |-> Ok(Nil)]
    ELSE interpret_statements_on_result(statements, i, execute(statements[i], st))

\* run, the interpreter stage: Interpreter::new().interpret(&statements)
run_interpret(sc, pr, out, now) ==
    LET r == interpret_statements(pr.statements, 1,
                 [heap |-> interpreter_new, environment |-> global,
                  output |-> out, now |-> now, log |-> <<>>, calls |-> <<>>,
                  nblocks |-> 0, nsites |-> 0])
    IN [scanner |-> sc, parser |-> pr, st |-> r.st,
        outcome |-> CASE r.res.kind = "Ok" -> "ok"
                      [] r.res.kind = "Panic" -> "panic in interpret"
                      [] r.res.kind = "Diverge" -> "diverged"
                      [] OTHER -> "runtime failure"]

\* run, the parser stage
run_parse(sc, pr, out, now) ==
    IF pr.state = "panicked"
    THEN [scanner |-> sc, parser |-> pr,
          st |-> [heap |-> <<>>, environment |-> None, output |-> out, log |-> <<>>],
          outcome |-> "panic in parse"]
    ELSE run_interpret(sc, pr, out, now)

\* run, the scanner stage
run_scan(sc, out, now) ==
    IF sc.state = "panicked"
    THEN [scanner |-> sc, parser |-> NoParser,
          st |-> [heap |-> <<>>, environment |-> None, output |-> out, log |-> <<>>],
          outcome |-> "panic in scan"]
    ELSE run_parse(sc, parse(ParserNew(sc.tokens)), out, now)

\* run(source), writing after what has been written already
run(source, out, now) == run_scan(scan_tokens(ScannerNew(source)), out, now)

\* the process after run: it has ended if run panicked
after_run(source, r, position) ==
    /\ scanner' = r.scanner
    /\ parser' = r.parser
    /\ program' = IF r.parser = NoParser THEN <<>> ELSE r.parser.statements
    /\ heap' = r.st.heap
    /\ environment' = r.st.environment
    /\ log' = r.st.log
    /\ output' = r.st.output
    /\ last' = [op |-> "run", source |-> source, outcome |-> r.outcome]
    /\ status' = IF r.outcome \in {"panic in scan", "panic in parse",
                                   "panic in interpret"} THEN "aborted"
                 ELSE IF r.outcome = "diverged" THEN "diverged"
                 ELSE position
    /\ nops' = nops + 1
    /\ pc' = pc
    /\ had_error' = had_error

RunTexts ==
    {"print 1;", "print zz;", "var a = 1; print a + 1;", "print ;", "1 = 2;",
     "\"abc", "1.", "print 1 + nil;", "if (zz) print 1;",
     "if (1 + nil) print 1; else print 2;", ""}

RunSources == {Chars(text) : text \in RunTexts}

InitRun ==
    /\ had_error = FALSE
    /\ status = "idle"
    /\ scanner = NoScanner
    /\ parser = NoParser
    /\ program = <<>>
    /\ pc = 1
    /\ heap = <<>>
    /\ environment = None
    /\ output = <<>>
    /\ log = <<>>
    /\ last = NoOp
    /\ nops = 0

\* main with more than one argument
Usage ==
    /\ status = "idle"
    /\ output' = Append(output, "Usage: rustlox [script]")
    /\ status' = "exited"
    /\ UNCHANGED <<heap, last, nops, program, pc, environment, log, parseVars,
                   scanVars>>

\* main with one argument: the file is run, the flag is read, main returns
RunFile(source, now) ==
    /\ status = "idle"
    /\ \E r \in {run(source, output, now)} : after_run(source, r, "exited")

\* prompt, the first half of an iteration: a line is read and run
PromptRun(source, now) ==
    /\ status \in {"idle", "prompt"}
    /\ nops < MaxLines
    /\ \E r \in {run(source, output, now)} : after_run(source, r, "ran")

\* prompt, the second half of an iteration: HAD_ERROR = false
PromptReset ==
    /\ status = "ran"
    /\ had_error' = FALSE
    /\ status' = "prompt"
    /\ UNCHANGED <<envVars, program, pc, environment, output, log, parser,
                   scanVars>>

\* prompt, the end of the input
PromptEnd ==
    /\ status \in {"idle", "prompt"}
    /\ status' = "end of input"
    /\ UNCHANGED <<envVars, program, pc, environment, output, log, parseVars,
                   scanVars>>

NextRun ==
    \/ Usage
    \/ \E source \in RunSources, now \in Times : RunFile(source, now)
    \/ \E source \in RunSources, now \in Times : PromptRun(source, now)
    \/ PromptReset
    \/ PromptEnd

SpecRun == InitRun /\ [][NextRun]_vars

-----------------------------------------------------------------------------
(* Scope chains, described independently of the lookup code *)

\* positions of Chain(h, e) whose scope binds name
Binders(h, e, name) ==
    {i \in 1..Len(Chain(h, e)) : name \in DOMAIN h[Chain(h, e)[i]].values}

SetMin(S) == CHOOSE x \in S : \A y \in S : x <= y

\* the innermost scope of the chain of e that binds name
Innermost(h, e, name) == Chain(h, e)[SetMin(Binders(h, e, name))]

UndefinedVariable(name) ==
    RuntimeError("IDENTIFIER", "Undefined variable '" \o name \o "'")

SameNames(h1, h2) ==
    /\ Len(h1) = Len(h2)
    /\ \A e \in 1..Len(h1) : DOMAIN h1[e].values = DOMAIN h2[e].values

-----------------------------------------------------------------------------
(* Claims about Environment, checked under SpecEnv *)

\* C2: get returns the value bound in the innermost scope of the chain that
\* binds the name, fails with "Undefined variable '<name>'" exactly when no
\* scope of the chain binds it, and changes no binding.
C2_GetInnermost ==
    last.op = "get" =>
        LET B == Binders(last.before, last.env, last.name)
        IN /\ heap = last.before
           /\ (B = {}) <=> (last.result.kind # "Ok")
           /\ B = {} => last.result = UndefinedVariable(last.name)
           /\ B # {} =>
                last.result =
                    Ok(last.before[Innermost(last.before, last.env, last.name)]
                           .values[last.name])

\* a get that was delegated past the receiver and found a binding that
\* shadows a different outer binding of the same name
C2_Witness ==
    /\ last.op = "get"
    /\ LET B == Binders(heap, last.env, last.name)
           c == Chain(heap, last.env)
       IN /\ 1 \notin B
          /\ Cardinality(B) >= 2
          /\ \E i, j \in B :
                heap[c[i]].values[last.name] # heap[c[j]].values[last.name]

\* C3: assign never creates a binding: the names bound in each scope change
\* only through define, and an assign to a name bound nowhere in the chain
\* fails with "Undefined variable '<name>'" and leaves every scope unchanged.
C3_AssignNeverCreates ==
    /\ last.op \in {"assign", "get"} => SameNames(heap, last.before)
    /\ (last.op = "assign" /\ Binders(last.before, last.env, last.name) = {}) =>
            /\ last.result = UndefinedVariable(last.name)
            /\ heap = last.before

\* a failed assign from a nested scope whose chain binds another name
C3_Witness ==
    /\ last.op = "assign"
    /\ last.result.kind = "RuntimeError"
    /\ Len(Chain(heap, last.env)) >= 2
    /\ \E n \in EnvNames : Binders(heap, last.env, n) # {}

\* C4: when the chain binds the name, assign overwrites exactly the binding
\* of the innermost binding scope, returns the value, leaves every other
\* binding unchanged, and a following get from the same scope returns it.
C4_AssignOverwritesInnermost ==
    (last.op = "assign" /\ Binders(last.before, last.env, last.name) # {}) =>
        LET target == Innermost(last.before, last.env, last.name)
        IN /\ last.result = Ok(last.value)
           /\ SameNames(heap, last.before)
           /\ \A e \in 1..Len(heap) :
                /\ heap[e].enclosing = last.before[e].enclosing
                /\ \A n \in DOMAIN heap[e].values :
                      heap[e].values[n] =
                          IF e = target /\ n = last.name
                          THEN last.value
                          ELSE last.before[e].values[n]
           /\ EnvGet(heap, last.env, last.name) = Ok(last.value)

\* an assign delegated to an enclosing scope, changing the value there, while
\* a scope further out binds the same name
C4_Witness ==
    /\ last.op = "assign"
    /\ LET B == Binders(last.before, last.env, last.name)
       IN /\ 1 \notin B
          /\ Cardinality(B) >= 2
          /\ last.before[Innermost(last.before, last.env, last.name)]
                 .values[last.name] # last.value

\* C5: define always succeeds and writes only the receiver scope: get from
\* that scope then returns the value (also when the name was already bound
\* there or in an ancestor), and what every other scope binds, and what a
\* lookup from any ancestor yields, is unchanged.
C5_DefineLocalOnly ==
    last.op = "define" =>
        /\ last.result.kind = "Ok"
        /\ EnvGet(heap, last.env, last.name) = Ok(last.value)
        /\ Len(heap) = Len(last.before)
        /\ \A e \in 1..Len(heap) : e # last.env => heap[e] = last.before[e]
        /\ heap[last.env].enclosing = last.before[last.env].enclosing
        /\ DOMAIN heap[last.env].values =
               DOMAIN last.before[last.env].values \cup {last.name}
        /\ \A n \in DOMAIN last.before[last.env].values :
               n # last.name =>
                   heap[last.env].values[n] = last.before[last.env].values[n]
        /\ LET c == Chain(heap, last.env)
           IN \A i \in 2..Len(c), n \in EnvNames :
                  EnvGet(heap, c[i], n) = EnvGet(last.before, c[i], n)

\* a define in a nested scope that shadows an ancestor's binding of the same
\* name with a different value
C5_Witness ==
    /\ last.op = "define"
    /\ heap[last.env].enclosing # None
    /\ LET outer == EnvGet(heap, heap[last.env].enclosing, last.name)
       IN outer.kind = "Ok" /\ outer.value # last.value

-----------------------------------------------------------------------------
(* Claims about the interpreter, checked under Spec *)

Events(kind) == {i \in 1..Len(log) : log[i].ev = kind}

\* C1: every execution of execute_block leaves the current-environment cursor
\* on exit where it was on entry, whether the block finishes normally, fails
\* with a RuntimeError or signals Return, at any nesting depth of blocks and
\* calls; and unless the process aborted, every block entered has exited.
C1_BlockRestoresEnvironment ==
    /\ \A i \in Events("enter"), j \in Events("exit") :
          log[i].id = log[j].id => log[j].env = log[i].env
    /\ status \in {"running", "done", "halted"} =>
          /\ \A i \in Events("enter") : \E j \in Events("exit") :
                j > i /\ log[j].id = log[i].id
          /\ environment = global

\* one run in which a block nested inside a call exited on Return, a nested
\* block exited on a RuntimeError, and a block exited normally
C1_Witness ==
    /\ \E i \in Events("enter"), j \in Events("exit") :
          /\ log[i].id = log[j].id
          /\ log[j].outcome = "Return"
          /\ log[i].calls >= 1 /\ log[i].depth >= 2
    /\ \E i \in Events("enter"), j \in Events("exit") :
          /\ log[i].id = log[j].id
          /\ log[j].outcome = "RuntimeError"
          /\ log[i].depth >= 3
    /\ \E j \in Events("exit") : log[j].outcome = "Ok"

\* C6: a call of a user-defined function executes the body in a fresh
\* environment whose parent is the closure captured at the declaration (not
\* the caller's environment, not an empty chain), with exactly the parameters
\* bound to the argument values in the fresh environment, so that a free
\* variable of the body resolves to the binding visible at the definition
\* site.
C6_CallEnvironmentParentIsClosure ==
    \A i \in Events("call") :
        /\ log[i].enclosing = log[i].closure
        /\ DOMAIN log[i].bound = {log[i].params[k] : k \in 1..Len(log[i].params)}
        /\ \A k \in 1..Len(log[i].params) :
              log[i].bound[log[i].params[k]] = log[i].values[k]

\* C7: a closure shares its captured scope: inside a function body, a read of
\* a captured variable yields the value the captured scope binds at that
\* moment (later assignments included), and an assignment to a captured
\* variable succeeds on the captured scope.
C7_ClosureSharesCapturedScope ==
    \A i \in Events("access") :
        (log[i].incall /\ ~log[i].local /\ log[i].expected.kind = "Ok") =>
            log[i].res = log[i].expected

C9_CallPropagatesRuntimeError ==
    \A i \in Events("callexit") :
        log[i].body.kind = "RuntimeError" => log[i].res = log[i].body

\* the message an arity mismatch is to carry, with both counts filled in
InterpolatedArityMessage(expected, actual) ==
    "Expected " \o ToString(expected) \o " arguments, but got " \o ToString(actual)

\* C10: a call whose argument count differs from the callee's arity fails
\* with a runtime error that identifies the expected and the actual count,
\* and the callee is not executed.
C10_ArityMismatchIdentifiesCounts ==
    \A i \in Events("arity") :
        log[i].expected # log[i].actual =>
            /\ log[i].res.kind = "RuntimeError"
            /\ log[i].res.error =
                   InterpolatedArityMessage(log[i].expected, log[i].actual)
            /\ \A j \in Events("call") : log[j].site # log[i].site

-----------------------------------------------------------------------------
(* Claims about Interpreter::evaluate, under SpecEval *)

\* the call f(1, ..., 1) of k arguments has been evaluated after
\* fun f(p1, ..., pn) { } was declared
CallEvaluated(n, k) ==
    /\ last.op = "evaluate"
    /\ program[1] = DeclN(n)
    /\ last.expr = Call(Variable("f"), Args(k))

\* C11: for a function declared with n parameters, 0 <= n <= 255, a call
\* with exactly n arguments passes the arity check (here: the call of the
\* empty body yields a value) and a call with any other number of arguments
\* fails it with a runtime error.
C11_ArityEqualsParameterCount ==
    \A n \in ParamCounts : \A k \in ArgCounts(n) :
        CallEvaluated(n, k) =>
            /\ (k = n) <=> (last.result.kind = "Ok")
            /\ (k # n) <=> (last.result.kind = "RuntimeError")

\* truthiness as the language defines it: nil and false are falsy
Truthy(v) == v.t # "Nil" /\ ~(v.t = "Boolean" /\ v.value = FALSE)

\* the value of an operand expression of OperandExprs
OperandValue(e) ==
    IF e.e = "Literal" THEN e.value ELSE last.before.heap[global].values[e.name]

\* the operator returns its left value without looking at the right operand
ShortCircuits(operator, left_value) ==
    \/ operator = "OR" /\ Truthy(left_value)
    \/ operator = "AND" /\ ~Truthy(left_value)

\* a logical expression over a left operand of OperandExprs and a right
\* operand of RightExprs has been evaluated
LogicalEvaluated ==
    /\ last.op = "evaluate"
    /\ last.expr.e = "Logical"
    /\ last.expr.left \in OperandExprs
    /\ last.expr.right \in RightExprs

\* C12: `or` with a truthy left value and `and` with a falsy left value
\* yield that left value itself and the right operand is not evaluated: the
\* environments and the output are as before and the right operand's error
\* does not occur.  Otherwise the result is what the right operand yields,
\* not coerced to a Boolean: its literal value, the assigned value (with the
\* assignment done), or its error.
C12_LogicalShortCircuit ==
    LogicalEvaluated =>
        LET left_value == OperandValue(last.expr.left)
            right == last.expr.right
        IN IF ShortCircuits(last.expr.operator, left_value)
           THEN /\ last.result = Ok(left_value)
                /\ heap = last.before.heap
                /\ output = last.before.output
                /\ Len(log) = Len(last.before.log)
                              + (IF last.expr.left.e = "Variable" THEN 1 ELSE 0)
           ELSE CASE right.e = "Literal" ->
                       last.result = Ok(right.value) /\ heap = last.before.heap
                  [] right.e = "Assign" ->
                       /\ last.result = Ok(right.value.value)
                       /\ heap[global].values[right.name] = right.value.value
                  [] right.e = "Variable" ->
                       last.result = UndefinedVariable(right.name)

\* `1 or (a = 2)` has yielded 1 with a still 1, `nil and zz` has yielded nil,
\* and `nil or "s"` has yielded "s"
C12_Witness ==
    \/ /\ LogicalEvaluated
       /\ last.expr = Logical(Num(1), "OR", AssignExpr("a", Num(2)))
       /\ last.result = Ok(Double(1))
       /\ heap[global].values["a"] = Double(1)
    \/ /\ LogicalEvaluated
       /\ last.expr = Logical(Literal(Nil), "AND", Variable("zz"))
       /\ last.result = Ok(Nil)

-----------------------------------------------------------------------------
(* Claims about Interpreter::interpret, under Spec *)

\* the statements 1..k of a program executed one after the other from the
\* state of Interpreter::new, up to and including the first one that does
\* not return Ok; ts[i] is the time at statement i, `at` the last statement
\* executed
RECURSIVE RunInOrder(_, _, _)
RunInOrder(prog, k, ts) ==
    IF k = 0
    THEN [st |-> [heap |-> interpreter_new, environment |-> global,
                  output |-> <<>>, now |-> 0, log |-> <<>>, calls |-> <<>>,
                  nblocks |-> 0, nsites |-> 0],
          res |-> Ok(Nil), at |-> 0]
    ELSE LET prev == RunInOrder(prog, k - 1, ts)
         IN IF prev.res.kind # "Ok" THEN prev
            ELSE LET r == execute(prog[k], [prev.st EXCEPT !.now = ts[k]])
                 IN [st |-> r.st, res |-> r.res, at |-> k]

\* the interpreter's environments and output are those of st
SameEffects(st, out) ==
    /\ heap = st.heap
    /\ environment = st.environment
    /\ output = out

\* C13: while interpret runs, the state is that of the statements before pc
\* executed in program order, all of them with full effect; once a statement
\* has failed with an Err, the state is that of the statements up to and
\* including the failing one, followed by the report of the error, and stays
\* so: no later statement has had any effect.
C13_InterpretInOrderUntilError ==
    \E ts \in [1..Len(program) -> Times] :
        LET before == RunInOrder(program, pc - 1, ts)
            upto == RunInOrder(program, pc, ts)
        IN /\ status \in {"running", "done"} =>
                /\ before.res.kind = "Ok"
                /\ before.at = pc - 1
                /\ SameEffects(before.st, before.st.output)
           /\ status = "done" => pc = Len(program) + 1
           /\ status = "halted" =>
                /\ before.res.kind = "Ok"
                /\ upto.at = pc
                /\ upto.res.kind \in {"RuntimeError", "Return"}
                /\ SameEffects(upto.st,
                       Append(upto.st.output,
                              "Runtime Error caught at interpret: " \o upto.res.kind))

\* a program of three statements has halted at its second statement: the
\* first has defined a, the third has not run
C13_Witness ==
    /\ status = "halted"
    /\ Len(program) = 3
    /\ pc = 2
    /\ program[1].s = "Var"
    /\ program[1].name \in DOMAIN heap[global].values
    /\ program[3].s = "Print"
    /\ Len(output) = 1

-----------------------------------------------------------------------------
(* Claims about the operators, under SpecEval *)

\* C14: unary minus applied to a value that is not a Double (a Boolean, a
\* String, nil, a Callable) makes evaluate return a RuntimeError; it never
\* aborts the process.
C14_UnaryMinusNonDoubleIsRuntimeError ==
    (/\ last.op = "evaluate"
     /\ last.expr.e = "Unary"
     /\ last.expr.operator = "MINUS"
     /\ last.expr.right \in OperandExprs
     /\ OperandValue(last.expr.right).t # "Double")
        => (last.result.kind = "RuntimeError" /\ status # "aborted")

\* a binary expression over two operands of OperandExprs has been evaluated
BinaryEvaluated ==
    /\ last.op = "evaluate"
    /\ last.expr.e = "Binary"
    /\ last.expr.left \in OperandExprs
    /\ last.expr.right \in OperandExprs

\* C15: an arithmetic or comparison operator succeeds exactly when both
\* operands are Double, or the operator is + and both operands are String
\* (the result is then the concatenation); every other combination of
\* operand variants fails with a RuntimeError carrying the operator.
C15_BinaryOperandTypes ==
    (BinaryEvaluated /\ last.expr.operator \in ArithmeticOperators) =>
        LET l == OperandValue(last.expr.left)
            r == OperandValue(last.expr.right)
            both_double == l.t = "Double" /\ r.t = "Double"
            both_string == l.t = "String" /\ r.t = "String"
        IN IF both_double THEN last.result.kind = "Ok"
           ELSE IF both_string /\ last.expr.operator = "PLUS"
                THEN last.result = Ok(String(l.value \o r.value))
           ELSE /\ last.result.kind = "RuntimeError"
                /\ last.result.operator = last.expr.operator

\* the reads and assignments of the evaluation that found no binding
UndefinedAccesses ==
    {i \in (Len(last.before.log) + 1)..Len(log) :
        /\ log[i].ev = "access"
        /\ log[i].res = UndefinedVariable(log[i].name)}

\* C16: when the evaluation of an expression reads or assigns a name that no
\* scope binds, in whatever position (operand, assigned value, argument,
\* callee), evaluate returns the undefined-variable error of that name.
C16_UndefinedVariableError ==
    (last.op = "evaluate" /\ UndefinedAccesses # {}) =>
        \E i \in UndefinedAccesses : last.result = log[i].res

-----------------------------------------------------------------------------
(* Claims about the Scanner, under SpecScan *)

\* the number of newline characters of a text
Newlines(source) == Cardinality({i \in 1..Len(source) : source[i] = "\n"})

\* C17: the token sequence scan_tokens returns contains exactly one EOF
\* token, which is its last token, and the line of that token is 1 plus the
\* number of newline characters of the source, those inside string literals
\* and those that end comments included.
C17_EofTokenLast ==
    scanner.state = "returned" =>
        LET tokens == scanner.tokens
        IN /\ Len(tokens) >= 1
           /\ tokens[Len(tokens)].ttype = "EOF"
           /\ \A i \in 1..(Len(tokens) - 1) : tokens[i].ttype # "EOF"
           /\ tokens[Len(tokens)].line = 1 + Newlines(scanner.source)

\* a scan has returned for a source with a newline inside a string literal
\* and a second newline after it
C17_Witness ==
    /\ scanner.state = "returned"
    /\ scanner.source = <<"\"", "\n", "\"", "\n">>
    /\ Len(scanner.tokens) = 2
    /\ scanner.tokens[1].ttype = "STRING"
    /\ scanner.tokens[2].line = 3

\* scan_tokens is over: it has returned or panicked
ScanOver == scanner.state \in {"returned", "panicked"}

\* the text is made of ASCII characters only
Ascii(source) == \A i \in 1..Len(source) : source[i] # NonAscii

\* the text starts with k digits followed by `.`
DigitsThenDot(source, k) ==
    /\ k >= 1
    /\ Len(source) > k
    /\ \A i \in 1..k : is_digit(source[i])
    /\ source[k + 1] = "."

\* C18: digits followed by `.` and a digit are scanned as one NUMBER token
\* with the fraction; when no digit follows the `.` (another character
\* does, or the `.` is the last character of the source) the scanner emits
\* NUMBER for the digits, then a DOT token, and completes the scan.
C18_NumberThenDot ==
    \A k \in 1..MaxSource :
        (ScanOver /\ Ascii(scanner.source) /\ DigitsThenDot(scanner.source, k)) =>
            IF Len(scanner.source) > k + 1 /\ is_digit(scanner.source[k + 2])
            THEN /\ Len(scanner.tokens) >= 1
                 /\ scanner.tokens[1].ttype = "NUMBER"
                 /\ Len(scanner.tokens[1].lexeme) > k + 1
            ELSE /\ scanner.state = "returned"
                 /\ Len(scanner.tokens) >= 3
                 /\ scanner.tokens[1].ttype = "NUMBER"
                 /\ scanner.tokens[1].lexeme = Concat(SubSeq(scanner.source, 1, k))
                 /\ scanner.tokens[2].ttype = "DOT"

\* the characters that start no token
Unrecognized == {"@", NonAscii}

\* the text with every unrecognized character replaced by a space
Blanked(source) ==
    [i \in 1..Len(source) |-> IF source[i] \in Unrecognized THEN " " ELSE source[i]]

\* C19: an unrecognized character outside strings and comments, ASCII or
\* not, does not abort the scan: scan_tokens returns, and the tokens are
\* those of the text in which each such character is a blank, so that
\* exactly these characters are skipped and every lexeme after them is
\* tokenized.
C19_UnrecognizedCharacterSkipped ==
    (/\ ScanOver
     /\ \E i \in 1..Len(scanner.source) : scanner.source[i] \in Unrecognized
     /\ \A i \in 1..Len(scanner.source) : scanner.source[i] \notin {"\"", "/"}
     /\ scan_tokens(ScannerNew(Blanked(scanner.source))).state = "returned")
        => /\ scanner.state = "returned"
           /\ scanner.tokens = scan_tokens(ScannerNew(Blanked(scanner.source))).tokens

\* the text has a single `"`, at position i, and no comment: the string
\* literal opened there is never closed
UnterminatedAt(source, i) ==
    /\ i \in 1..Len(source)
    /\ source[i] = "\""
    /\ \A j \in 1..Len(source) : (j # i) => source[j] \notin {"\"", "/"}

\* the kinds and lexemes of a token sequence
Lexemes(tokens) ==
    [i \in 1..Len(tokens) |-> <<tokens[i].ttype, tokens[i].lexeme>>]

\* C20: when the source ends inside a string literal, the outcome of the
\* scan records it: the scan does not return just the tokens it returns for
\* the source cut before the opening quote.
C20_UnterminatedStringReported ==
    \A i \in 1..MaxSource :
        (/\ scanner.state = "returned"
         /\ UnterminatedAt(scanner.source, i)
         /\ scan_tokens(ScannerNew(SubSeq(scanner.source, 1, i - 1))).state = "returned")
            => Lexemes(scanner.tokens)
               # Lexemes(scan_tokens(ScannerNew(SubSeq(scanner.source, 1, i - 1))).tokens)

-----------------------------------------------------------------------------
(* The grammar of binary operators, described independently of the parser *)

\* the precedence level of a binary operator: a higher level binds tighter
Level(op) ==
    CASE op \in {"BANG_EQUAL", "EQUAL_EQUAL"} -> 1
      [] op \in {"GREATER", "GREATER_EQUAL", "LESS", "LESS_EQUAL"} -> 2
      [] op \in {"MINUS", "PLUS"} -> 3
      [] op \in {"SLASH", "STAR"} -> 4

\* the tree of the operands lo..hi, where ops[i] stands between the operands
\* i and i + 1 and operand i is the literal i: its root is the last of the
\* operators of the lowest level
RECURSIVE PrecedenceTree(_, _, _)
PrecedenceTree(ops, lo, hi) ==
    IF lo = hi THEN Num(lo)
    ELSE LET lowest == CHOOSE l \in 1..4 :
                           /\ \E i \in lo..(hi - 1) : Level(ops[i]) = l
                           /\ \A i \in lo..(hi - 1) : Level(ops[i]) >= l
             root == CHOOSE i \in lo..(hi - 1) :
                         /\ Level(ops[i]) = lowest
                         /\ \A j \in (i + 1)..(hi - 1) : Level(ops[j]) > lowest
         IN Binary(PrecedenceTree(ops, lo, root), ops[root],
                   PrecedenceTree(ops, root + 1, hi))

\* the operators of the expression statement 1 op 2 op 3 ... ;
OperatorsOf(tokens) == [i \in 1..((Len(tokens) - 3) \div 2) |-> tokens[2 * i].ttype]

\* the state of Interpreter::new()
FreshInterpreter ==
    [heap |-> interpreter_new, environment |-> global, output |-> <<>>,
     now |-> 1000, log |-> <<>>, calls |-> <<>>, nblocks |-> 0, nsites |-> 0]

\* C21: an expression statement of literals and binary operators without
\* parentheses parses to the tree fixed by the precedence levels equality <
\* comparison < term < factor, every level associating to the left: 1 - 2 - 3
\* is (1 - 2) - 3, and 1 + 2 * 3 is 1 + (2 * 3), which evaluates to 7.
C21_PrecedenceAndAssociativity ==
    (parser.tokens \in ExprInputs /\ parser.current > 0)
        => /\ parser.state # "panicked"
           /\ parser.statements =
                  <<ExpressionStmt(PrecedenceTree(OperatorsOf(parser.tokens), 1,
                                       Len(OperatorsOf(parser.tokens)) + 1))>>
           /\ OperatorsOf(parser.tokens) = <<"MINUS", "MINUS">>
                  => parser.statements[1].expr
                         = Binary(Binary(Num(1), "MINUS", Num(2)), "MINUS", Num(3))
           /\ OperatorsOf(parser.tokens) = <<"PLUS", "STAR">>
                  => /\ parser.statements[1].expr
                            = Binary(Num(1), "PLUS", Binary(Num(2), "STAR", Num(3)))
                     /\ evaluate(parser.statements[1].expr, FreshInterpreter).res
                            = Ok(Double(7))

C21_Witness ==
    /\ parser.tokens = ExprTokens(<<"PLUS", "STAR">>) \o Toks(<<"SEMICOLON", "EOF">>)
    /\ parser.state = "returned"
    /\ parser.statements =
           <<ExpressionStmt(Binary(Num(1), "PLUS", Binary(Num(2), "STAR", Num(3))))>>

-----------------------------------------------------------------------------
(* Parse errors *)

\* C22: `=` after a left side that is not a variable is a parse error that
\* the parser survives, in every statement position: parse does not panic.
C22_InvalidAssignmentTargetSurvived ==
    parser.tokens \in InvalidAssignments => parser.state # "panicked"

-----------------------------------------------------------------------------
(* for loops, described independently of the parser and of the interpreter *)

\* the tree the loop stands for
ForTree(loop) ==
    LET body == PrintStmt(Variable("i"))
        inner == IF loop.increment.expr = NoExpr THEN body
                 ELSE BlockStmt(<<body, ExpressionStmt(loop.increment.expr)>>)
        while == WhileStmt(IF loop.condition.expr = NoExpr
                           THEN Literal(Boolean(TRUE))
                           ELSE loop.condition.expr,
                           inner)
    IN IF loop.initializer.stmt = NoStmt THEN while
       ELSE BlockStmt(<<loop.initializer.stmt, while>>)

\* what the loop prints when i is the value of its variable and n turns
\* are done: the condition is tested, then the body prints, then the
\* increment adds one; `over` tells that the loop has ended within MaxIter
\* turns
RECURSIVE ForTurns(_, _, _, _)
ForTurns(loop, i, n, printed) ==
    IF loop.condition.expr # NoExpr /\ ~(i < 2)
    THEN [printed |-> printed, i |-> i, over |-> TRUE]
    ELSE IF n >= MaxIter THEN [printed |-> printed, i |-> i, over |-> FALSE]
    ELSE ForTurns(loop, IF loop.increment.expr # NoExpr THEN i + 1 ELSE i,
                  n + 1, Append(printed, ToString(i)))

\* the turns of the loop of var i = 1; for (...) print i; print i;
ForRun(loop) ==
    ForTurns(loop, IF loop.initializer.stmt = NoStmt THEN 1 ELSE 0, 0, <<>>)

\* what var i = 1; for (...) print i; print i; prints: the initializer runs
\* once, and a variable it declares is gone after the loop
ForOutput(loop) ==
    IF ~ForRun(loop).over THEN ForRun(loop).printed
    ELSE IF loop.initializer.stmt.s = "Var" THEN Append(ForRun(loop).printed, "1")
    ELSE Append(ForRun(loop).printed, ToString(ForRun(loop).i))

C24_ParseFailureRecovered ==
    parser.tokens \in FailureThenStatement
        => /\ parser.state # "panicked"
           /\ parser.state = "returned"
                  => parser.statements[Len(parser.statements)]
                         \in {ExpressionStmt(Num(1)), ExpressionStmt(Variable("a"))}

\* the parse has made an error known: by a report or, at least, by its panic
ErrorSurfaced == parser.reported # <<>> \/ parser.state = "panicked"

\* C25: parameter lists and argument lists have the same limit: up to 255
\* entries parse without error, 256 or more produce a reported error; for
\* parameters the error is not fatal, and the Function statement is produced.
C25_ParameterAndArgumentLimits ==
    (parser.tokens \in LimitInputs /\ parser.state # "parsing")
        => /\ \A n \in LimitCounts :
                  parser.tokens = FunInput(n)
                      => /\ parser.state = "returned"
                         /\ parser.statements = <<DeclN(n)>>
                         /\ n <= 255 => parser.reported = <<>>
                         /\ n >= 256 => ErrorSurfaced
           /\ \A k \in ArgumentCounts :
                  parser.tokens = CallInput(k)
                      => /\ parser.state = "returned"
                         /\ parser.statements
                                = <<ExpressionStmt(Call(Variable("f"), Args(k)))>>
                         /\ parser.reported = <<>>

-----------------------------------------------------------------------------
(* Ownership of Environment nodes *)

\* the environments that e owns a reference to: its parent, and the closure
\* of every function value stored in its bindings
Owned(h, e) ==
    (IF h[e].enclosing = None THEN {} ELSE {h[e].enclosing})
        \cup {h[e].values[name].value.closure :
                 name \in {n \in DOMAIN h[e].values :
                              /\ h[e].values[n].t = "Callable"
                              /\ h[e].values[n].value.kind = "Function"}}

\* the environments reached from those of S by at most n references
RECURSIVE OwnedWithin(_, _, _)
OwnedWithin(h, S, n) ==
    IF n = 0 THEN S
    ELSE OwnedWithin(h, S \cup UNION {Owned(h, e) : e \in S}, n - 1)

\* C26: the ownership graph of the Environment nodes is acyclic: no
\* environment is reached from itself by following parents and the closures
\* of stored function values.
C26_OwnershipAcyclic ==
    \A e \in 1..Len(heap) :
        e \notin OwnedWithin(heap, Owned(heap, e), Len(heap))

-----------------------------------------------------------------------------
(* The had-error flag *)

\* sources with a scan failure, a parse failure, a runtime failure
FailingSources ==
    {Chars(text) : text \in {"\"abc", "1.", "print ;", "1 = 2;", "print zz;",
                             "print 1 + nil;", "if (zz) print 1;",
                             "if (1 + nil) print 1; else print 2;"}}

\* C27: when run(source) has returned, the had-error flag tells whether the
\* source had a scan, parse or runtime failure; the interactive loop has
\* reset it to false when it comes back to its prompt.
C27_HadErrorFlag ==
    /\ (last.op = "run" /\ status \in {"ran", "exited"})
           => (had_error <=> last.source \in FailingSources)
    /\ status = "prompt" => ~had_error

-----------------------------------------------------------------------------
(* Failures in conditions *)

\* programs whose `if` has a condition that fails at run time
FailingIfSources ==
    {Chars(text) : text \in {"if (zz) print 1;",
                             "if (1 + nil) print 1; else print 2;"}}

\* C28: a runtime failure in the condition of an `if` is returned as that
\* RuntimeError: no branch runs, interpret reports it and halts the program,
\* and the process is not aborted.
C28_IfConditionFailureReturned ==
    (last.op = "run" /\ last.source \in FailingIfSources)
        => /\ last.outcome = "runtime failure"
           /\ status # "aborted"
           /\ output[Len(output)] = "Runtime Error caught at interpret: RuntimeError"

\* C29: no parse error is discarded: a binary operator whose right operand
\* does not parse, at any level, and a for loop whose increment does not
\* parse are not accepted; 1 + ; is not parsed as 1; .
C29_NoParseErrorDiscarded ==
    parser.tokens \in MissingOperands
        => /\ parser.state # "returned"
           /\ parser.statements # <<ExpressionStmt(Num(1))>>

-----------------------------------------------------------------------------
(* Progress of the parser *)

\* the cursor has never decreased and has never moved past the EOF, and
\* every declaration() that has returned has advanced it
CursorAdvances ==
    /\ parser.current = parser.trail[Len(parser.trail)]
    /\ \A i \in 1..(Len(parser.trail) - 1) : parser.trail[i + 1] >= parser.trail[i]
    /\ parser.current + 1 <= Len(parser.tokens)
    /\ \A j \in 1..parser.current : parser.tokens[j].ttype # "EOF"
    /\ \A i \in 1..Len(parser.decls) : parser.decls[i].to >= parser.decls[i].from + 1

\* an iteration of the loop of parse ends parse (it returns, or a panic
\* ends it) or leaves the cursor further on in the same token vector
ParseProgress ==
    parser.state = "parsing"
        => \/ parser'.state \in {"returned", "panicked"}
           \/ /\ parser'.state = "parsing"
              /\ parser'.tokens = parser.tokens
              /\ parser'.current > parser.current

\* C30: for every token vector that ends with EOF, parse terminates: the
\* cursor never decreases and never moves past the EOF, every declaration()
\* that returns has advanced the cursor by at least one token, and so every
\* iteration of the loop of parse ends it or brings the cursor nearer the EOF.
C30_ParseTerminates == []CursorAdvances /\ [][ParseProgress]_vars

C30_Witness ==
    /\ parser.state = "returned"
    /\ Len(parser.decls) >= 2
    /\ parser.current = Len(parser.tokens) - 1
    /\ Len(parser.trail) = Len(parser.tokens)

====
